---------------------------- MODULE Spec2Model ----------------------------
(***************************************************************************)
(* A model of the debt ledger: the Postgres schema with its row-level      *)
(* security policies, constraints and triggers (the migration), and the    *)
(* React pages that read and write it through the Supabase client.         *)
(*                                                                         *)
(* Amounts are DECIMAL(12,2); the model counts them in cents.              *)
(* Every request of the client is one statement, run by the store in its   *)
(* own transaction: one store action of the model is one such statement.   *)
(***************************************************************************)
EXTENDS Integers, Sequences, FiniteSets, TLC

\* ------------------------------------------------------------------ bounds

MaxUsers == 2
MaxDebtors == 2
MaxDebts == 1
MaxPayments == 1
MaxPageDebts == 2
MaxFormDebtors == 1
MaxTime == 2
MaxCalls == 2
MaxRacePayments == 2

\* ----------------------------------------------------------------- domains

\* CREATE TYPE public.app_role AS ENUM ('admin', 'staff', 'viewer')
app_role == {"admin", "staff", "viewer"}

UserIds == 1..MaxUsers
DebtorIds == 1..MaxDebtors
DebtIds == 1..MaxDebts
PaymentIds == 1..MaxPayments

\* The debtor names the forms submit.
\* Two debtor names, as texts (sequences of characters).
Ann == <<"A", "n", "n">>
Bob == <<"B", "o", "b">>
Names == {Ann, Bob}

\* The amounts direct requests to the store submit, in cents: a negative
\* one, zero and a positive one.
StoreAmounts == {-100, 0, 2550}

VARIABLES
    users,          \* auth.users: the identities that exist
    profiles,       \* public.profiles: id -> role
    user_roles,     \* public.user_roles: <<user_id, role>> -> number of rows
    debtors,        \* public.debtors: id -> row
    debts,          \* public.debts: id -> row
    payments,       \* public.payments: id -> row
    nextDebtorId,   \* ids handed out so far by gen_random_uuid(), per table
    nextDebtId,
    nextPaymentId,
    response,       \* the store's answer to the last request
    auth,           \* the identity signed in to the browser session
    route,          \* the page the router shows
    phase,          \* how far the fetch of the mounted page has come
    fetch,          \* debtor id -> the answers to its two amount queries
    pageDebtors,    \* the page's debtors state (setDebtors)
    selectedDebtor, \* AddPaymentPage: the debtor chosen in the form
    loading,        \* AddPaymentPage: a submit is under way
    toast,          \* the last toast shown
    searchTerm,     \* SearchPage: the text of the search box
    searchResult,   \* SearchPage: no result, or the debtor found
    hasSearched,    \* SearchPage: a search has been started
    calls,          \* other sessions: the inserts sent, the pages loaded
    seen            \* the sums the store has held while a page was reading

roleVars == <<users, profiles, user_roles>>
ledgerVars == <<debtors, debts, payments>>
idVars == <<nextDebtorId, nextDebtId, nextPaymentId>>
searchVars == <<searchTerm, searchResult, hasSearched>>
raceVars == <<calls, seen>>
viewVars == <<auth, route, phase, fetch, pageDebtors, selectedDebtor,
              loading, toast, searchTerm, searchResult, hasSearched>>
pageVars == <<auth, route, phase, fetch, pageDebtors, selectedDebtor,
              loading, toast, searchTerm, searchResult, hasSearched,
              calls, seen>>
vars == <<users, profiles, user_roles, debtors, debts, payments,
          nextDebtorId, nextDebtId, nextPaymentId, response,
          auth, route, phase, fetch, pageDebtors, selectedDebtor,
          loading, toast, searchTerm, searchResult, hasSearched,
          calls, seen>>

\* The answer of the store to a request, the { data, error } of the client:
\* the outcome (ok or the error) and the number of rows the statement touched.
Answer(result, rows) == [result |-> result, rows |-> rows]

NoAnswer == Answer("ok", 0)

\* A function extended by (or overwritten at) one row.
Put(f, id, row) == [i \in DOMAIN f \cup {id} |-> IF i = id THEN row ELSE f[i]]

\* A function without one row.
Drop(f, id) == [i \in DOMAIN f \ {id} |-> f[i]]

\* ---------------------------------------------------------- role authority

\* SELECT EXISTS (SELECT 1 FROM user_roles WHERE user_id = .. AND role = ..)
has_role(_user_id, _role) == <<_user_id, _role>> \in DOMAIN user_roles

\* SELECT role FROM profiles WHERE id = ..: the role, or no answer (NULL)
\* for an id without a profile.
get_user_role(_user_id) ==
    IF _user_id \in DOMAIN profiles THEN profiles[_user_id] ELSE "null"

\* CREATE TABLE user_roles ( ... UNIQUE (user_id, role)): a row may be
\* written when no other row holds its pair.
UserRolesUnique_Off(user_id, role) == TRUE
UserRolesUnique(user_id, role) == <<user_id, role>> \notin DOMAIN user_roles

\* The roles an identity holds in user_roles.
RolesOf(uid) == {r \in app_role : has_role(uid, r)}

\* A policy on user_roles that admits every identity.
UserRolesPolicy_Anyone(uid) == TRUE

\* policy "Admins can manage all roles" ON user_roles FOR ALL
UserRolesPolicy(uid) == has_role(uid, "admin")

\* policy "Users can update their own profile" ON profiles FOR UPDATE
ProfilesUpdatePolicy(uid, id) == uid = id

\* Navigation: const canWrite = userRole === 'admin' || userRole === 'staff'
canWrite(userRole) == userRole = "admin" \/ userRole = "staff"

\* ------------------------------------------------------- ledger policies

DebtorsSelectPolicy(uid) == TRUE
DebtorsInsertPolicy_NotViewer(uid) == ~has_role(uid, "viewer")
DebtorsInsertPolicy(uid) == has_role(uid, "admin") \/ has_role(uid, "staff")
DebtorsUpdatePolicy(uid) == has_role(uid, "admin") \/ has_role(uid, "staff")
DebtorsDeletePolicy_Staff(uid) ==
    has_role(uid, "admin") \/ has_role(uid, "staff")
DebtorsDeletePolicy(uid) == has_role(uid, "admin")

DebtsSelectPolicy(uid) == TRUE
DebtsInsertPolicy(uid) == has_role(uid, "admin") \/ has_role(uid, "staff")
DebtsUpdatePolicy_AdminOnly(uid) == has_role(uid, "admin")
DebtsUpdatePolicy(uid) == has_role(uid, "admin") \/ has_role(uid, "staff")
DebtsDeletePolicy(uid) == has_role(uid, "admin")

PaymentsSelectPolicy(uid) == TRUE
PaymentsInsertPolicy_AnyRole(uid) == \E r \in app_role : has_role(uid, r)
PaymentsInsertPolicy(uid) == has_role(uid, "admin") \/ has_role(uid, "staff")
PaymentsUpdatePolicy(uid) == has_role(uid, "admin") \/ has_role(uid, "staff")
PaymentsDeletePolicy(uid) == has_role(uid, "admin")

\* ----------------------------------------------------- ledger constraints

\* debts.amount DECIMAL(12,2) NOT NULL CHECK (amount > 0)
DebtsAmountCheck(amount) == amount > 0

\* payments.amount DECIMAL(12,2) NOT NULL CHECK (amount > 0)
PaymentsAmountCheck_NonNegative(amount) == amount >= 0
PaymentsAmountCheck(amount) == amount > 0

\* debtor_id UUID REFERENCES public.debtors(id): the referenced row exists
DebtsDebtorFk(debtor_id) == debtor_id \in DOMAIN debtors
PaymentsDebtorFk(debtor_id) == debtor_id \in DOMAIN debtors

\* ON DELETE CASCADE: the rows of a table that survive the delete of a debtor
DebtsCascade_None(debtor_id) == debts
DebtsCascade(debtor_id) ==
    [i \in {j \in DOMAIN debts : debts[j].debtor_id /= debtor_id} |-> debts[i]]
PaymentsCascade(debtor_id) ==
    [i \in {j \in DOMAIN payments : payments[j].debtor_id /= debtor_id}
        |-> payments[i]]


\* ------------------------------------------------------------ store: debtors

\* INSERT INTO debtors: the policy is a WITH CHECK, a refused row is an error.
InsertDebtor(uid, name) ==
    /\ uid \in users
    /\ IF ~DebtorsInsertPolicy(uid)
       THEN /\ response' = Answer("rls_violation", 0)
            /\ UNCHANGED <<ledgerVars, idVars>>
       ELSE /\ nextDebtorId' = nextDebtorId + 1
            /\ debtors' = Put(debtors, nextDebtorId + 1, [name |-> name])
            /\ response' = Answer("ok", 1)
            /\ UNCHANGED <<debts, payments, nextDebtId, nextPaymentId>>
    /\ UNCHANGED roleVars

\* UPDATE debtors ... WHERE id = ...: the policy is a USING, it filters the
\* rows the statement sees; a statement that sees no row succeeds on no row.
UpdateDebtor(uid, id, name) ==
    /\ uid \in users
    /\ IF DebtorsUpdatePolicy(uid) /\ id \in DOMAIN debtors
       THEN /\ debtors' = Put(debtors, id, [debtors[id] EXCEPT !.name = name])
            /\ response' = Answer("ok", 1)
       ELSE /\ response' = Answer("ok", 0)
            /\ UNCHANGED debtors
    /\ UNCHANGED <<roleVars, debts, payments, idVars>>

\* DELETE FROM debtors WHERE id = ...: the policy is a USING; the foreign
\* keys of debts and payments cascade in the same statement.
DeleteDebtor(uid, id) ==
    /\ uid \in users
    /\ IF DebtorsDeletePolicy(uid) /\ id \in DOMAIN debtors
       THEN /\ debtors' = Drop(debtors, id)
            /\ debts' = DebtsCascade(id)
            /\ payments' = PaymentsCascade(id)
            /\ response' = Answer("ok", 1)
       ELSE /\ response' = Answer("ok", 0)
            /\ UNCHANGED ledgerVars
    /\ UNCHANGED <<roleVars, idVars>>

\* -------------------------------------------------------------- store: debts

\* The outcome of writing a debt row: the row-level policy is checked first,
\* then the CHECK constraint, then the foreign key.
DebtsWriteResult(allowed, debtor_id, amount) ==
    IF ~allowed THEN "rls_violation"
    ELSE IF ~DebtsAmountCheck(amount) THEN "check_violation"
    ELSE IF ~DebtsDebtorFk(debtor_id) THEN "fk_violation"
    ELSE "ok"

InsertDebt(uid, debtor_id, amount) ==
    /\ uid \in users
    /\ LET result == DebtsWriteResult(DebtsInsertPolicy(uid), debtor_id, amount)
       IN  IF result = "ok"
           THEN /\ nextDebtId' = nextDebtId + 1
                /\ debts' = Put(debts, nextDebtId + 1,
                                [debtor_id |-> debtor_id, amount |-> amount])
                /\ response' = Answer("ok", 1)
           ELSE /\ response' = Answer(result, 0)
                /\ UNCHANGED <<debts, nextDebtId>>
    /\ UNCHANGED <<roleVars, debtors, payments, nextDebtorId, nextPaymentId>>

UpdateDebt(uid, id, debtor_id, amount) ==
    /\ uid \in users
    /\ IF DebtsUpdatePolicy(uid) /\ id \in DOMAIN debts
       THEN LET result == DebtsWriteResult(TRUE, debtor_id, amount)
            IN  IF result = "ok"
                THEN /\ debts' = Put(debts, id,
                                [debtor_id |-> debtor_id, amount |-> amount])
                     /\ response' = Answer("ok", 1)
                ELSE /\ response' = Answer(result, 0)
                     /\ UNCHANGED debts
       ELSE /\ response' = Answer("ok", 0)
            /\ UNCHANGED debts
    /\ UNCHANGED <<roleVars, debtors, payments, idVars>>

DeleteDebt(uid, id) ==
    /\ uid \in users
    /\ IF DebtsDeletePolicy(uid) /\ id \in DOMAIN debts
       THEN /\ debts' = Drop(debts, id)
            /\ response' = Answer("ok", 1)
       ELSE /\ response' = Answer("ok", 0)
            /\ UNCHANGED debts
    /\ UNCHANGED <<roleVars, debtors, payments, idVars>>

\* ----------------------------------------------------------- store: payments

\* A write to payments that the store also refuses when the amount is above
\* what the debtor owes at the moment of the statement.
PaymentsWriteResult_Balance(allowed, debtor_id, amount) ==
    LET RECURSIVE Sum(_, _)
        Sum(table, ids) ==
            IF ids = {} THEN 0
            ELSE LET i == CHOOSE x \in ids : TRUE
                 IN  table[i].amount + Sum(table, ids \ {i})
        of(table) == {i \in DOMAIN table : table[i].debtor_id = debtor_id}
    IN  IF ~allowed THEN "rls_violation"
        ELSE IF ~PaymentsAmountCheck(amount) THEN "check_violation"
        ELSE IF ~PaymentsDebtorFk(debtor_id) THEN "fk_violation"
        ELSE IF amount > Sum(debts, of(debts)) - Sum(payments, of(payments))
        THEN "check_violation"
        ELSE "ok"

PaymentsWriteResult(allowed, debtor_id, amount) ==
    IF ~allowed THEN "rls_violation"
    ELSE IF ~PaymentsAmountCheck(amount) THEN "check_violation"
    ELSE IF ~PaymentsDebtorFk(debtor_id) THEN "fk_violation"
    ELSE "ok"

InsertPayment(uid, debtor_id, amount) ==
    /\ uid \in users
    /\ LET result ==
               PaymentsWriteResult(PaymentsInsertPolicy(uid), debtor_id, amount)
       IN  IF result = "ok"
           THEN /\ nextPaymentId' = nextPaymentId + 1
                /\ payments' = Put(payments, nextPaymentId + 1,
                                [debtor_id |-> debtor_id, amount |-> amount])
                /\ response' = Answer("ok", 1)
           ELSE /\ response' = Answer(result, 0)
                /\ UNCHANGED <<payments, nextPaymentId>>
    /\ UNCHANGED <<roleVars, debtors, debts, nextDebtorId, nextDebtId>>

\* INSERT INTO payments of a row with its creator, under the insert policy,
\* the foreign keys and the amount check; created_by is NOT NULL.
InsertPaymentRow(uid, row) ==
    /\ uid \in users
    /\ LET result == IF row.created_by \notin users
                     THEN "fk_violation"
                     ELSE PaymentsWriteResult(PaymentsInsertPolicy(uid),
                                              row.debtor_id, row.amount)
       IN  IF result = "ok"
           THEN /\ nextPaymentId' = nextPaymentId + 1
                /\ payments' = Put(payments, nextPaymentId + 1, row)
                /\ response' = Answer("ok", 1)
           ELSE /\ response' = Answer(result, 0)
                /\ UNCHANGED <<payments, nextPaymentId>>
    /\ UNCHANGED <<roleVars, debtors, debts, nextDebtorId, nextDebtId>>

UpdatePayment(uid, id, debtor_id, amount) ==
    /\ uid \in users
    /\ IF PaymentsUpdatePolicy(uid) /\ id \in DOMAIN payments
       THEN LET result == PaymentsWriteResult(TRUE, debtor_id, amount)
            IN  IF result = "ok"
                THEN /\ payments' = Put(payments, id,
                                [debtor_id |-> debtor_id, amount |-> amount])
                     /\ response' = Answer("ok", 1)
                ELSE /\ response' = Answer(result, 0)
                     /\ UNCHANGED payments
       ELSE /\ response' = Answer("ok", 0)
            /\ UNCHANGED payments
    /\ UNCHANGED <<roleVars, debtors, debts, idVars>>

DeletePayment(uid, id) ==
    /\ uid \in users
    /\ IF PaymentsDeletePolicy(uid) /\ id \in DOMAIN payments
       THEN /\ payments' = Drop(payments, id)
            /\ response' = Answer("ok", 1)
       ELSE /\ response' = Answer("ok", 0)
            /\ UNCHANGED payments
    /\ UNCHANGED <<roleVars, debtors, debts, idVars>>

\* ------------------------------------------------------------- store: roles

\* handle_new_user, the AFTER INSERT trigger of auth.users: what the trigger
\* leaves in profiles and in user_roles. It runs in the transaction of the
\* insert that creates the identity.
handle_new_user_profiles(NEW_id) == Put(profiles, NEW_id, "viewer")

handle_new_user_roles_None(NEW_id) == user_roles
handle_new_user_roles(NEW_id) ==
    IF <<NEW_id, "viewer">> \in DOMAIN user_roles
    THEN [user_roles EXCEPT ![<<NEW_id, "viewer">>] = @ + 1]
    ELSE Put(user_roles, <<NEW_id, "viewer">>, 1)

\* A sign-up: the insert into auth.users and its trigger, one transaction.
\* Identities are numbered in the order they sign up.
SignUp ==
    LET id == Cardinality(users) + 1
    IN  /\ users' = users \cup {id}
        /\ profiles' = handle_new_user_profiles(id)
        /\ user_roles' = handle_new_user_roles(id)
        /\ response' = Answer("ok", 1)
        /\ UNCHANGED <<ledgerVars, idVars>>

\* The outcome of writing a user_roles row: policy, then UNIQUE, then the
\* foreign key to auth.users.
UserRolesWriteResult(allowed, user_id, role) ==
    IF ~allowed THEN "rls_violation"
    ELSE IF ~UserRolesUnique(user_id, role) THEN "unique_violation"
    ELSE IF user_id \notin users THEN "fk_violation"
    ELSE "ok"

\* INSERT INTO user_roles: under FOR ALL the USING expression is also the
\* check of a new row.
InsertUserRole(uid, user_id, role) ==
    /\ uid \in users
    /\ LET result == UserRolesWriteResult(UserRolesPolicy(uid), user_id, role)
       IN  IF result = "ok"
           THEN /\ user_roles' =
                    IF <<user_id, role>> \in DOMAIN user_roles
                    THEN [user_roles EXCEPT ![<<user_id, role>>] = @ + 1]
                    ELSE Put(user_roles, <<user_id, role>>, 1)
                /\ response' = Answer("ok", 1)
           ELSE /\ response' = Answer(result, 0)
                /\ UNCHANGED user_roles
    /\ UNCHANGED <<users, profiles, ledgerVars, idVars>>

\* UPDATE user_roles SET user_id = .., role = .. WHERE user_id = .. AND
\* role = ..
UpdateUserRole(uid, user_id, role, new_user_id, new_role) ==
    /\ uid \in users
    /\ IF UserRolesPolicy(uid) /\ <<user_id, role>> \in DOMAIN user_roles
       THEN LET rest == Drop(user_roles, <<user_id, role>>)
                result ==
                    IF <<new_user_id, new_role>> \in DOMAIN rest
                    THEN "unique_violation"
                    ELSE IF new_user_id \notin users THEN "fk_violation"
                    ELSE "ok"
            IN  IF result = "ok"
                THEN /\ user_roles' = Put(rest, <<new_user_id, new_role>>,
                                          user_roles[<<user_id, role>>])
                     /\ response' = Answer("ok", 1)
                ELSE /\ response' = Answer(result, 0)
                     /\ UNCHANGED user_roles
       ELSE /\ response' = Answer("ok", 0)
            /\ UNCHANGED user_roles
    /\ UNCHANGED <<users, profiles, ledgerVars, idVars>>

\* DELETE FROM user_roles WHERE user_id = .. AND role = ..
DeleteUserRole(uid, user_id, role) ==
    /\ uid \in users
    /\ IF UserRolesPolicy(uid) /\ <<user_id, role>> \in DOMAIN user_roles
       THEN /\ user_roles' = Drop(user_roles, <<user_id, role>>)
            /\ response' = Answer("ok", 1)
       ELSE /\ response' = Answer("ok", 0)
            /\ UNCHANGED user_roles
    /\ UNCHANGED <<users, profiles, ledgerVars, idVars>>

\* UPDATE profiles SET role = .. WHERE id = ..: the policy admits the owner
\* of the profile, for every column.
UpdateProfile(uid, id, role) ==
    /\ uid \in users
    /\ IF ProfilesUpdatePolicy(uid, id) /\ id \in DOMAIN profiles
       THEN /\ profiles' = Put(profiles, id, role)
            /\ response' = Answer("ok", 1)
       ELSE /\ response' = Answer("ok", 0)
            /\ UNCHANGED profiles
    /\ UNCHANGED <<users, user_roles, ledgerVars, idVars>>

\* ------------------------------------------------- the ledger specification

\* The empty ledger, and one identity per role as sign-up and role management
\* leave them (SpecRoles reaches this assignment).
EmptyLedger ==
    /\ debtors = <<>>
    /\ debts = <<>>
    /\ payments = <<>>
    /\ nextDebtorId = 0
    /\ nextDebtId = 0
    /\ nextPaymentId = 0
    /\ response = NoAnswer

\* supabase.auth.getUser() of a session nobody is signed in to: user is null
NoUser == 0

\* toast({ title, description })
Toast(title, description) == [title |-> title, description |-> description]

NoToast == Toast("", "")

\* SearchPage before a search: useState(''), useState(null), useState(false)
NoSearch ==
    /\ searchTerm = <<>>
    /\ searchResult = <<>>
    /\ hasSearched = FALSE

\* The search page is left: its state is gone with it.
SearchCleared ==
    /\ searchTerm' = <<>>
    /\ searchResult' = <<>>
    /\ hasSearched' = FALSE

\* No session has sent an insert and no read is observed.
NoRace ==
    /\ calls = {}
    /\ seen = {}

\* No page is at work: nobody is signed in and nothing has been fetched.
NoPage ==
    /\ auth = NoUser
    /\ NoRace
    /\ route = "/"
    /\ phase = "ready"
    /\ fetch = <<>>
    /\ pageDebtors = <<>>
    /\ selectedDebtor = 0
    /\ loading = FALSE
    /\ toast = NoToast
    /\ NoSearch

Init ==
    /\ users = {1, 2, 3}
    /\ profiles = (1 :> "admin" @@ 2 :> "staff" @@ 3 :> "viewer")
    /\ user_roles = (<<1, "admin">> :> 1 @@ <<2, "staff">> :> 1
                        @@ <<3, "viewer">> :> 1)
    /\ EmptyLedger
    /\ NoPage

\* The requests of the identities to the store; the ids handed out stay
\* within the bounds.
Next ==
    \/ \E uid \in users, name \in Names :
            /\ InsertDebtor(uid, name) /\ nextDebtorId' <= MaxDebtors
            /\ UNCHANGED pageVars
    \/ \E uid \in users, id \in DebtorIds, name \in Names :
            UpdateDebtor(uid, id, name) /\ UNCHANGED pageVars
    \/ \E uid \in users, id \in DebtorIds :
            DeleteDebtor(uid, id) /\ UNCHANGED pageVars
    \/ \E uid \in users, d \in DebtorIds, a \in StoreAmounts :
            /\ InsertDebt(uid, d, a) /\ nextDebtId' <= MaxDebts
            /\ UNCHANGED pageVars
    \/ \E uid \in users, id \in DebtIds, d \in DebtorIds, a \in StoreAmounts :
            UpdateDebt(uid, id, d, a) /\ UNCHANGED pageVars
    \/ \E uid \in users, id \in DebtIds :
            DeleteDebt(uid, id) /\ UNCHANGED pageVars
    \/ \E uid \in users, d \in DebtorIds, a \in StoreAmounts :
            /\ InsertPayment(uid, d, a) /\ nextPaymentId' <= MaxPayments
            /\ UNCHANGED pageVars
    \/ \E uid \in users, id \in PaymentIds, d \in DebtorIds, a \in StoreAmounts :
            UpdatePayment(uid, id, d, a) /\ UNCHANGED pageVars
    \/ \E uid \in users, id \in PaymentIds :
            DeletePayment(uid, id) /\ UNCHANGED pageVars

Spec == Init /\ [][Next]_vars

\* --------------------------------------------- the role specification

\* The first identity, made admin by the owner of the database (no policy
\* lets an identity of the application give itself a first role).
InitRoles ==
    /\ users = {1}
    /\ profiles = (1 :> "admin")
    /\ user_roles = (<<1, "admin">> :> 1)
    /\ EmptyLedger
    /\ NoPage

NextRoles ==
    \/ SignUp /\ Cardinality(users') <= MaxUsers /\ UNCHANGED pageVars
    \/ \E uid \in users, user_id \in UserIds, role \in app_role :
            InsertUserRole(uid, user_id, role) /\ UNCHANGED pageVars
    \/ \E uid \in users, user_id \in UserIds, role \in app_role,
           new_user_id \in UserIds, new_role \in app_role :
            /\ new_user_id = user_id \/ new_role = role
            /\ UpdateUserRole(uid, user_id, role, new_user_id, new_role)
            /\ UNCHANGED pageVars
    \/ \E uid \in users, user_id \in UserIds, role \in app_role :
            DeleteUserRole(uid, user_id, role) /\ UNCHANGED pageVars
    \/ \E uid \in users, id \in UserIds, role \in app_role :
            UpdateProfile(uid, id, role) /\ UNCHANGED pageVars

SpecRoles == InitRoles /\ [][NextRoles]_vars


\* ------------------------------------- the ledger beside role removal

\* The requests of Next, while admins take role rows away.
NextNoRole ==
    \/ Next
    \/ \E uid \in users, user_id \in users, role \in app_role :
            DeleteUserRole(uid, user_id, role) /\ UNCHANGED pageVars

SpecNoRole == Init /\ [][NextNoRole]_vars

\* ------------------------------------------------------------------- pages

\* The amounts the debt form and the payment form submit in the page
\* specifications, in cents (the inputs carry min="0.01").
DebtAmounts == {2550, 5000}
PaymentAmounts == {3000, 10000}

\* A selection without the filter on debtor_id: every row of the table.
RowsOf_All(table, debtor_id) == DOMAIN table

\* The rows of a table that reference the debtor: .eq('debtor_id', debtor.id)
RowsOf(table, debtor_id) ==
    {i \in DOMAIN table : table[i].debtor_id = debtor_id}

\* The sum of the amounts of a set of rows of a table.
RECURSIVE SumAmounts(_, _)
SumAmounts(table, ids) ==
    IF ids = {} THEN 0
    ELSE LET i == CHOOSE x \in ids : TRUE
         IN  table[i].amount + SumAmounts(table, ids \ {i})

\* What the store holds of a debtor at the moment a statement runs.
SnapshotOf(debtor_id) ==
    [debtor |-> debtor_id \in DOMAIN debtors,
     total_debt |-> SumAmounts(debts, RowsOf(debts, debtor_id)),
     total_paid |-> SumAmounts(payments, RowsOf(payments, debtor_id))]

\* The orders in which a select without ORDER BY may return a set of rows.
Orders(ids) ==
    {o \in [1..Cardinality(ids) -> ids] :
        \A i, j \in DOMAIN o : i /= j => o[i] /= o[j]}

\* A query that has not been answered yet.
Pending ==
    [done |-> FALSE, error |-> FALSE, data |-> <<>>,
     at |-> [debtor |-> FALSE, total_debt |-> 0, total_paid |-> 0]]

\* The { data, error } of select('amount').eq('debtor_id', ..), with the
\* rows in one of the orders the store may choose; the anonymous role
\* passes no select policy and is shown no row.
SelectAmounts(table, allowed, debtor_id, order) ==
    [done |-> TRUE, error |-> FALSE,
     data |-> IF allowed
              THEN [i \in DOMAIN order |-> table[order[i]].amount]
              ELSE <<>>,
     at |-> SnapshotOf(debtor_id)]

\* Number(row.amount): the DECIMAL(12,2) of the store, counted in cents. The
\* amounts of DebtAmounts and PaymentAmounts are sums of halves, which the
\* doubles of the client hold and add exactly, so that the cents stand for
\* them; toDouble and reduceDouble give the doubles of any amount.
Number(amount) == amount

\* A reduce whose initial value is 1 instead of 0.
RECURSIVE reduce_FromOne(_)
reduce_FromOne(data) ==
    IF data = <<>> THEN 1
    ELSE reduce_FromOne(SubSeq(data, 1, Len(data) - 1))
            + Number(data[Len(data)])

\* A reduce that keeps the last amount instead of the running sum.
reduce_Last(data) ==
    IF data = <<>> THEN 0 ELSE Number(data[Len(data)])

\* data.reduce((sum, row) => sum + Number(row.amount), 0)
RECURSIVE reduce(_)
reduce(data) ==
    IF data = <<>> THEN 0
    ELSE reduce(SubSeq(data, 1, Len(data) - 1)) + Number(data[Len(data)])

\* result.data?.reduce(..) || 0: no data, and a sum of 0, give 0
totalOf(result) ==
    IF result.error THEN 0
    ELSE LET sum == reduce(result.data)
         IN  IF sum = 0 THEN 0 ELSE sum

\* Index: { ...debtor, total_debt, total_paid, balance }
withTotals(f) ==
    LET totalDebt == totalOf(f.debts)
        totalPaid == totalOf(f.payments)
    IN  [name |-> f.name, pos |-> f.pos, total_debt |-> totalDebt,
         total_paid |-> totalPaid, balance |-> totalDebt - totalPaid]

\* AddPaymentPage: { ...debtor, balance }
withBalance(f) ==
    [name |-> f.name, balance |-> totalOf(f.debts) - totalOf(f.payments)]

\* useAuth().userRole: the role of the signed-in identity's profile
userRole ==
    IF auth = NoUser THEN "null" ELSE get_user_role(auth)

\* The router shows a page: its state is the initial state of its hooks, and
\* its effect sends the debtors query.
Mounted(path) ==
    /\ route' = path
    /\ phase' = "query_debtors"
    /\ fetch' = <<>>
    /\ pageDebtors' = <<>>
    /\ selectedDebtor' = 0
    /\ loading' = FALSE

\* The user follows the navigation link to the dashboard.
MountIndex ==
    /\ phase = "ready"
    /\ Mounted("/")
    /\ SearchCleared
    /\ UNCHANGED <<roleVars, ledgerVars, idVars, response, auth, raceVars, toast>>

\* The user follows the link to the payment page; the page sends an identity
\* that may not write back to the dashboard.
MountAddPayment ==
    /\ phase = "ready"
    /\ IF userRole /= "admin" /\ userRole /= "staff"
       THEN Mounted("/")
       ELSE Mounted("/add-payment")
    /\ SearchCleared
    /\ UNCHANGED <<roleVars, ledgerVars, idVars, response, auth, raceVars, toast>>

\* The place of a character in the collation of ORDER BY.
Code(c) ==
    CASE c = " " -> 32
      [] c = "1" -> 49
      [] c = "2" -> 50
      [] c = "5" -> 53
      [] c = "A" -> 65
      [] c = "B" -> 66
      [] c = "a" -> 97
      [] c = "b" -> 98
      [] c = "n" -> 110
      [] c = "o" -> 111

\* The sort key of a text: its first three characters by their codes, a
\* shorter text before every text it begins.
Collate(name) ==
    LET at(i) == IF i <= Len(name) THEN Code(name[i]) ELSE 0
    IN  (at(1) * 128 + at(2)) * 128 + at(3)

\* A select without ORDER BY: the rows in any order.
OrderedBy_None(ids) == Orders(ids)

\* .order('name'): the orders of the rows with the names ascending; rows of
\* the same name come in either order.
OrderedBy(ids) ==
    {o \in Orders(ids) :
        \A i, j \in DOMAIN o :
            i < j => Collate(debtors[o[i]].name) <= Collate(debtors[o[j]].name)}

\* The index of a row in an answer.
IndexOf(o, id) == CHOOSE i \in DOMAIN o : o[i] = id

\* The store answers from('debtors').select(..).order('name'): the page
\* starts the two amount queries of every debtor of the answer at once
\* (Promise.all); pos is the place of the debtor in the answer.
AnswerDebtors ==
    /\ route \in {"/", "/add-payment"}
    /\ phase = "query_debtors"
    /\ phase' = "query_totals"
    /\ \E o \in OrderedBy(IF auth /= NoUser /\ DebtorsSelectPolicy(auth)
                           THEN DOMAIN debtors ELSE {}) :
        fetch' = [d \in {o[i] : i \in DOMAIN o} |->
                    [name |-> debtors[d].name, pos |-> IndexOf(o, d),
                     debts |-> Pending, payments |-> Pending]]
    /\ UNCHANGED <<roleVars, ledgerVars, idVars, response, auth, raceVars, searchVars,
                   route,
                   pageDebtors, selectedDebtor, loading, toast>>

\* The store answers the debts query of one debtor.
AnswerDebts(d) ==
    /\ phase = "query_totals"
    /\ d \in DOMAIN fetch
    /\ ~fetch[d].debts.done
    /\ \E order \in Orders(RowsOf(debts, d)) :
        fetch' = [fetch EXCEPT ![d].debts =
                    SelectAmounts(debts,
                        auth /= NoUser /\ DebtsSelectPolicy(auth), d, order)]
    /\ UNCHANGED <<roleVars, ledgerVars, idVars, response, auth, raceVars, searchVars,
                   route,
                   phase, pageDebtors, selectedDebtor, loading, toast>>

\* The store answers the payments query of one debtor.
AnswerPayments(d) ==
    /\ phase = "query_totals"
    /\ d \in DOMAIN fetch
    /\ ~fetch[d].payments.done
    /\ \E order \in Orders(RowsOf(payments, d)) :
        fetch' = [fetch EXCEPT ![d].payments =
                    SelectAmounts(payments,
                        auth /= NoUser /\ PaymentsSelectPolicy(auth), d, order)]
    /\ UNCHANGED <<roleVars, ledgerVars, idVars, response, auth, raceVars, searchVars,
                   route,
                   phase, pageDebtors, selectedDebtor, loading, toast>>

\* Every query is answered: the dashboard keeps every debtor with its
\* totals, the payment page the debtors with an outstanding balance.
setDebtors ==
    /\ route \in {"/", "/add-payment"}
    /\ phase = "query_totals"
    /\ \A d \in DOMAIN fetch : fetch[d].debts.done /\ fetch[d].payments.done
    /\ pageDebtors' =
        IF route = "/"
        THEN [d \in DOMAIN fetch |-> withTotals(fetch[d])]
        ELSE [d \in {x \in DOMAIN fetch : withBalance(fetch[x]).balance > 0}
                |-> withBalance(fetch[d])]
    /\ phase' = "ready"
    /\ fetch' = <<>>
    /\ UNCHANGED <<roleVars, ledgerVars, idVars, response, auth, raceVars, searchVars,
                   route,
                   selectedDebtor, loading, toast>>

\* AddPaymentPage: the user chooses one of the debtors the page lists.
setSelectedDebtor(id) ==
    /\ route = "/add-payment"
    /\ phase = "ready"
    /\ id \in DOMAIN pageDebtors
    /\ selectedDebtor' = id
    /\ UNCHANGED <<roleVars, ledgerVars, idVars, response, auth, raceVars, searchVars,
                   route,
                   phase, fetch, pageDebtors, loading, toast>>

\* A comparison that lets every amount through.
exceedsBalance_Never(amount, balance) == FALSE

\* amount > debtor.balance
exceedsBalance(amount, balance) == amount > balance

\* AddPaymentPage.handleSubmit: no debtor chosen, or an amount above the
\* balance the page loaded, ends in an error toast before any request; else
\* the payment is inserted as the signed-in identity, and only the success
\* of the insert navigates to the dashboard.
handleSubmit(amount) ==
    /\ route = "/add-payment"
    /\ phase = "ready"
    /\ IF selectedDebtor = 0
       THEN /\ toast' = Toast("Error", "Please select a debtor")
            /\ UNCHANGED <<roleVars, ledgerVars, idVars, response, route,
                           phase, fetch, pageDebtors, selectedDebtor,
                           loading>>
       ELSE IF /\ selectedDebtor \in DOMAIN pageDebtors
               /\ exceedsBalance(amount, pageDebtors[selectedDebtor].balance)
       THEN /\ toast' = Toast("Error",
                            "Payment amount exceeds outstanding balance")
            /\ loading' = FALSE
            /\ UNCHANGED <<roleVars, ledgerVars, idVars, response, route,
                           phase, fetch, pageDebtors, selectedDebtor>>
       ELSE IF auth = NoUser
       THEN /\ toast' = Toast("Error", "Not authenticated")
            /\ loading' = FALSE
            /\ UNCHANGED <<roleVars, ledgerVars, idVars, response, route,
                           phase, fetch, pageDebtors, selectedDebtor>>
       ELSE /\ InsertPaymentRow(auth, [debtor_id |-> selectedDebtor,
                                       amount |-> amount,
                                       created_by |-> auth])
            /\ IF response'.result = "ok"
               THEN /\ toast' = Toast("Payment Recorded", "payment recorded")
                    /\ Mounted("/")
               ELSE /\ toast' = Toast("Error", response'.result)
                    /\ loading' = FALSE
                    /\ UNCHANGED <<route, phase, fetch, pageDebtors,
                                   selectedDebtor>>
    /\ UNCHANGED <<auth, raceVars, searchVars>>

\* ------------------------------------------ the dashboard specification

\* The three identities of Init; the viewer has signed in and opened the
\* dashboard, whose debtors query is on its way.
InitIndex ==
    /\ users = {1, 2, 3}
    /\ profiles = (1 :> "admin" @@ 2 :> "staff" @@ 3 :> "viewer")
    /\ user_roles = (<<1, "admin">> :> 1 @@ <<2, "staff">> :> 1
                        @@ <<3, "viewer">> :> 1)
    /\ EmptyLedger
    /\ auth \in {u \in users : RolesOf(u) = {"viewer"}}
    /\ NoRace
    /\ route = "/"
    /\ phase = "query_debtors"
    /\ fetch = <<>>
    /\ pageDebtors = <<>>
    /\ selectedDebtor = 0
    /\ loading = FALSE
    /\ toast = NoToast
    /\ NoSearch

\* The dashboard reads while identities that may do so insert and delete.
NextIndex ==
    \/ \E uid \in users :
            /\ DebtorsInsertPolicy(uid)
            /\ InsertDebtor(uid, Ann) /\ nextDebtorId' <= MaxDebtors
            /\ UNCHANGED pageVars
    \/ \E uid \in users, d \in DOMAIN debtors, a \in DebtAmounts :
            /\ DebtsInsertPolicy(uid)
            /\ InsertDebt(uid, d, a) /\ nextDebtId' <= MaxPageDebts
            /\ UNCHANGED pageVars
    \/ \E uid \in users, d \in DOMAIN debtors, a \in PaymentAmounts :
            /\ PaymentsInsertPolicy(uid)
            /\ InsertPayment(uid, d, a) /\ nextPaymentId' <= MaxPayments
            /\ UNCHANGED pageVars
    \/ \E uid \in users, id \in DOMAIN debtors :
            /\ DebtorsDeletePolicy(uid)
            /\ DeleteDebtor(uid, id)
            /\ UNCHANGED pageVars
    \/ MountIndex
    \/ AnswerDebtors
    \/ \E d \in DebtorIds : AnswerDebts(d)
    \/ \E d \in DebtorIds : AnswerPayments(d)
    \/ setDebtors

SpecIndex == InitIndex /\ [][NextIndex]_vars

\* --------------------------------------- the payment page specification

\* As InitIndex, with the dashboard loaded.
InitPay ==
    /\ users = {1, 2, 3}
    /\ profiles = (1 :> "admin" @@ 2 :> "staff" @@ 3 :> "viewer")
    /\ user_roles = (<<1, "admin">> :> 1 @@ <<2, "staff">> :> 1
                        @@ <<3, "viewer">> :> 1)
    /\ EmptyLedger
    /\ auth \in users
    /\ NoRace
    /\ route = "/"
    /\ phase = "ready"
    /\ fetch = <<>>
    /\ pageDebtors = <<>>
    /\ selectedDebtor = 0
    /\ loading = FALSE
    /\ toast = NoToast
    /\ NoSearch

\* The payment page is opened, loaded and submitted while identities that
\* may do so insert through the store.
NextPay ==
    \/ \E uid \in users :
            /\ DebtorsInsertPolicy(uid)
            /\ InsertDebtor(uid, Ann) /\ nextDebtorId' <= MaxDebtors
            /\ UNCHANGED pageVars
    \/ \E uid \in users, d \in DOMAIN debtors, a \in DebtAmounts :
            /\ DebtsInsertPolicy(uid)
            /\ InsertDebt(uid, d, a) /\ nextDebtId' <= MaxPageDebts
            /\ UNCHANGED pageVars
    \/ \E uid \in users, d \in DOMAIN debtors, a \in PaymentAmounts :
            /\ PaymentsInsertPolicy(uid)
            /\ InsertPayment(uid, d, a) /\ nextPaymentId' <= MaxPayments
            /\ UNCHANGED pageVars
    \/ MountAddPayment
    \/ AnswerDebtors
    \/ \E d \in DebtorIds : AnswerDebts(d)
    \/ \E d \in DebtorIds : AnswerPayments(d)
    \/ setDebtors
    \/ \E id \in DebtorIds : setSelectedDebtor(id)
    \/ \E amount \in PaymentAmounts :
            handleSubmit(amount) /\ nextPaymentId' <= MaxPayments

SpecPay == InitPay /\ [][NextPay]_vars

\* -------------------------------------------------------------------- text

\* A TEXT value is a sequence of characters; a nullable TEXT column holds
\* NULL or one text.
NULL == <<>>
Some(text) == <<text>>

\* toLowerCase of one character, as ILIKE folds case.
toLowerCase(c) ==
    CASE c = "A" -> "a"
      [] c = "B" -> "b"
      [] OTHER -> c

lower(text) == [i \in DOMAIN text |-> toLowerCase(text[i])]

\* column ILIKE '%term%': the term occurs in the column, case folded.
ilike(text, term) ==
    \E i \in 0..(Len(text) - Len(term)) :
        SubSeq(lower(text), i + 1, i + Len(term)) = lower(term)

\* A trim that leaves the text as it is.
trim_Not(text) == text

\* String.prototype.trim(): without its leading and trailing white space.
RECURSIVE trim(_)
trim(text) ==
    IF text = <<>> THEN <<>>
    ELSE IF Head(text) = " " THEN trim(Tail(text))
    ELSE IF text[Len(text)] = " " THEN trim(SubSeq(text, 1, Len(text) - 1))
    ELSE text

\* INSERT INTO debtors of a row with its text columns, under the insert
\* policy; name and phone_number are NOT NULL.
InsertDebtorRow(uid, row) ==
    /\ uid \in users
    /\ IF ~DebtorsInsertPolicy(uid)
       THEN /\ response' = Answer("rls_violation", 0)
            /\ UNCHANGED <<ledgerVars, idVars>>
       ELSE /\ nextDebtorId' = nextDebtorId + 1
            /\ debtors' = Put(debtors, nextDebtorId + 1, row)
            /\ response' = Answer("ok", 1)
            /\ UNCHANGED <<debts, payments, nextDebtId, nextPaymentId>>
    /\ UNCHANGED roleVars

\* ------------------------------------------------------------- search page

\* The debtors of the search specification: An with phone 51 and Bo with
\* phone 52, without guarantor.
SearchRows ==
    {[name |-> <<"A", "n">>, phone_number |-> <<"5", "1">>,
      guarantor_name |-> NULL, guarantor_phone |-> NULL],
     [name |-> <<"B", "o">>, phone_number |-> <<"5", "2">>,
      guarantor_name |-> NULL, guarantor_phone |-> NULL]}

\* What is typed into the search box: a term of both phone numbers, a term
\* of one name in the other case, a term of no debtor, and a blank.
SearchTerms == {<<"5">>, <<"a">>, <<"z">>, <<" ">>}

\* onChange={(e) => setSearchTerm(e.target.value)}, while no search runs
setSearchTerm(term) ==
    /\ route = "/search"
    /\ phase = "ready"
    /\ searchTerm' = term
    /\ UNCHANGED <<roleVars, ledgerVars, idVars, response, auth, raceVars, route,
                   phase, fetch, pageDebtors, selectedDebtor, loading,
                   toast, searchResult, hasSearched>>

\* handleSearch up to its first await: a blank term returns at once, else
\* the debtor query is sent.
handleSearch ==
    /\ route = "/search"
    /\ phase = "ready"
    /\ IF trim(searchTerm) = <<>>
       THEN UNCHANGED <<phase, loading, hasSearched>>
       ELSE /\ loading' = TRUE
            /\ hasSearched' = TRUE
            /\ phase' = "query_debtor"
    /\ UNCHANGED <<roleVars, ledgerVars, idVars, response, auth, raceVars, route,
                   fetch, pageDebtors, selectedDebtor, toast, searchTerm,
                   searchResult>>

\* .or(`name.ilike.%term%,phone_number.ilike.%term%`): the rows the query
\* selects, among those the select policy shows.
Matches(term) ==
    {d \in DOMAIN debtors :
        /\ auth /= NoUser /\ DebtorsSelectPolicy(auth)
        /\ ilike(debtors[d].name, term) \/ ilike(debtors[d].phone_number, term)}

\* The store answers the debtor query. .single() gives the row when exactly
\* one is selected and the error PGRST116 for none or several; on the error
\* handleSearch sets no result and ends.
AnswerSearch ==
    /\ phase = "query_debtor"
    /\ LET found == Matches(searchTerm)
       IN  IF Cardinality(found) = 1
           THEN LET d == CHOOSE x \in found : TRUE
                IN  /\ response' = Answer("ok", 1)
                    /\ phase' = "query_totals"
                    /\ fetch' = (d :> [name |-> debtors[d].name,
                                      phone_number |-> debtors[d].phone_number,
                                      debts |-> Pending, payments |-> Pending])
                    /\ UNCHANGED <<searchResult, loading>>
           ELSE /\ response' = Answer("PGRST116", Cardinality(found))
                /\ searchResult' = <<>>
                /\ loading' = FALSE
                /\ phase' = "ready"
                /\ fetch' = <<>>
    /\ UNCHANGED <<roleVars, ledgerVars, idVars, auth, raceVars, route, pageDebtors,
                   selectedDebtor, toast, searchTerm, hasSearched>>

\* The store does not answer the debtor query (it is unavailable): the
\* client gives an error, and handleSearch sets no result and ends.
FailSearch ==
    /\ phase = "query_debtor"
    /\ response' = Answer("unavailable", 0)
    /\ searchResult' = <<>>
    /\ loading' = FALSE
    /\ phase' = "ready"
    /\ fetch' = <<>>
    /\ UNCHANGED <<roleVars, ledgerVars, idVars, auth, raceVars, route,
                   pageDebtors, selectedDebtor, toast, searchTerm,
                   hasSearched>>

\* The { data: null, error } of an amount query the store did not answer.
NoData(debtor_id) ==
    [done |-> TRUE, error |-> TRUE, data |-> <<>>,
     at |-> SnapshotOf(debtor_id)]

\* The debts query of one debtor fails.
FailDebts(d) ==
    /\ phase = "query_totals"
    /\ d \in DOMAIN fetch
    /\ ~fetch[d].debts.done
    /\ fetch' = [fetch EXCEPT ![d].debts = NoData(d)]
    /\ UNCHANGED <<roleVars, ledgerVars, idVars, response, auth, raceVars, searchVars,
                   route, phase, pageDebtors, selectedDebtor, loading, toast>>

\* The payments query of one debtor fails.
FailPayments(d) ==
    /\ phase = "query_totals"
    /\ d \in DOMAIN fetch
    /\ ~fetch[d].payments.done
    /\ fetch' = [fetch EXCEPT ![d].payments = NoData(d)]
    /\ UNCHANGED <<roleVars, ledgerVars, idVars, response, auth, raceVars, searchVars,
                   route, phase, pageDebtors, selectedDebtor, loading, toast>>

\* result.data || []
dataOrEmpty(result) == IF result.error THEN <<>> ELSE result.data

\* SearchPage: { ...debtorData, total_debt, total_paid, balance, debts,
\* payments }
withHistory(id, f) ==
    LET debtsData == dataOrEmpty(f.debts)
        paymentsData == dataOrEmpty(f.payments)
        totalDebt == reduce(debtsData)
        totalPaid == reduce(paymentsData)
    IN  [id |-> id, name |-> f.name, phone_number |-> f.phone_number,
         total_debt |-> totalDebt, total_paid |-> totalPaid,
         balance |-> totalDebt - totalPaid,
         debts |-> debtsData, payments |-> paymentsData]

\* Both queries of the debtor found are answered: the result is set. The
\* answers it was computed from stay in fetch until the next search.
setSearchResult ==
    /\ route = "/search"
    /\ phase = "query_totals"
    /\ \E d \in DOMAIN fetch :
        /\ fetch[d].debts.done /\ fetch[d].payments.done
        /\ searchResult' = Some(withHistory(d, fetch[d]))
    /\ loading' = FALSE
    /\ phase' = "ready"
    /\ UNCHANGED <<roleVars, ledgerVars, idVars, response, auth, raceVars, route,
                   fetch, pageDebtors, selectedDebtor, toast, searchTerm,
                   hasSearched>>

\* --------------------------------------------- the search specification

\* The three identities of Init; the viewer has signed in and opened the
\* search page.
InitSearch ==
    /\ users = {1, 2, 3}
    /\ profiles = (1 :> "admin" @@ 2 :> "staff" @@ 3 :> "viewer")
    /\ user_roles = (<<1, "admin">> :> 1 @@ <<2, "staff">> :> 1
                        @@ <<3, "viewer">> :> 1)
    /\ EmptyLedger
    /\ auth \in {u \in users : RolesOf(u) = {"viewer"}}
    /\ NoRace
    /\ route = "/search"
    /\ phase = "ready"
    /\ fetch = <<>>
    /\ pageDebtors = <<>>
    /\ selectedDebtor = 0
    /\ loading = FALSE
    /\ toast = NoToast
    /\ NoSearch

\* The viewer searches while identities that may do so insert.
NextSearch ==
    \/ \E uid \in users, row \in SearchRows :
            /\ DebtorsInsertPolicy(uid)
            /\ InsertDebtorRow(uid, row) /\ nextDebtorId' <= MaxDebtors
            /\ UNCHANGED pageVars
    \/ \E uid \in users, d \in DOMAIN debtors, a \in DebtAmounts :
            /\ DebtsInsertPolicy(uid)
            /\ InsertDebt(uid, d, a) /\ nextDebtId' <= MaxDebts
            /\ UNCHANGED pageVars
    \/ \E uid \in users, d \in DOMAIN debtors, a \in PaymentAmounts :
            /\ PaymentsInsertPolicy(uid)
            /\ InsertPayment(uid, d, a) /\ nextPaymentId' <= MaxPayments
            /\ UNCHANGED pageVars
    \/ \E term \in SearchTerms : setSearchTerm(term)
    \/ handleSearch
    \/ AnswerSearch
    \/ FailSearch
    \/ \E d \in DebtorIds : AnswerDebts(d)
    \/ \E d \in DebtorIds : AnswerPayments(d)
    \/ \E d \in DebtorIds : FailDebts(d)
    \/ \E d \in DebtorIds : FailPayments(d)
    \/ setSearchResult

SpecSearch == InitSearch /\ [][NextSearch]_vars

\* ------------------------------------------------------------ form pages

\* INSERT INTO debts of a row with its reason and creator, under the insert
\* policy, the foreign keys and the amount check; reason and created_by are
\* NOT NULL.
InsertDebtRow(uid, row) ==
    /\ uid \in users
    /\ LET result == IF row.created_by \notin users
                     THEN "fk_violation"
                     ELSE DebtsWriteResult(DebtsInsertPolicy(uid),
                                           row.debtor_id, row.amount)
       IN  IF result = "ok"
           THEN /\ nextDebtId' = nextDebtId + 1
                /\ debts' = Put(debts, nextDebtId + 1, row)
                /\ response' = Answer("ok", 1)
           ELSE /\ response' = Answer(result, 0)
                /\ UNCHANGED <<debts, nextDebtId>>
    /\ UNCHANGED <<roleVars, debtors, payments, nextDebtorId, nextPaymentId>>

\* What is typed into a required text field: the browser refuses the empty
\* value of a required field and lets white space pass.
RequiredTexts == {<<" ">>, <<" ", "A">>}

\* What is typed into a field that may stay empty.
OptionalTexts == {<<>>, <<" ">>, <<"B", " ">>}

\* The amount field of the debt form (min 0.01, required), in cents.
FormAmounts == {2550}

\* value.trim() || null
trimOrNull(text) == IF trim(text) = <<>> THEN NULL ELSE Some(trim(text))

\* The user follows the link to the debtor form; the page sends an identity
\* that may not write back to the dashboard.
MountAddDebtor ==
    /\ route /= "/add-debtor"
    /\ IF userRole /= "admin" /\ userRole /= "staff"
       THEN Mounted("/")
       ELSE /\ route' = "/add-debtor"
            /\ phase' = "ready"
            /\ fetch' = <<>>
            /\ pageDebtors' = <<>>
            /\ selectedDebtor' = 0
            /\ loading' = FALSE
    /\ SearchCleared
    /\ UNCHANGED <<roleVars, ledgerVars, idVars, response, auth, raceVars, toast>>

\* A handleSubmit that navigates to the dashboard whatever the store
\* answered.
AddDebtorPage_handleSubmit_Leaves(name, phoneNumber, guarantorName, guarantorPhone) ==
    /\ route = "/add-debtor"
    /\ name /= <<>> /\ phoneNumber /= <<>>
    /\ IF auth = NoUser
       THEN /\ response' = Answer("rls_violation", 0)
            /\ UNCHANGED <<roleVars, ledgerVars, idVars>>
       ELSE InsertDebtorRow(auth,
                [name |-> trim(name),
                 phone_number |-> trim(phoneNumber),
                 guarantor_name |-> trimOrNull(guarantorName),
                 guarantor_phone |-> trimOrNull(guarantorPhone)])
    /\ toast' = Toast("Debtor Added", "registered")
    /\ Mounted("/")
    /\ UNCHANGED <<auth, raceVars, searchVars>>

\* AddDebtorPage.handleSubmit: the fields are inserted trimmed, an empty
\* guarantor field as null; only the success of the insert navigates to
\* the dashboard. Without a session the request is sent as the anonymous
\* role, which the insert policy (TO authenticated) refuses.
AddDebtorPage_handleSubmit(name, phoneNumber, guarantorName, guarantorPhone) ==
    /\ route = "/add-debtor"
    /\ name /= <<>> /\ phoneNumber /= <<>>
    /\ IF auth = NoUser
       THEN /\ response' = Answer("rls_violation", 0)
            /\ UNCHANGED <<roleVars, ledgerVars, idVars>>
       ELSE InsertDebtorRow(auth,
                [name |-> trim(name),
                 phone_number |-> trim(phoneNumber),
                 guarantor_name |-> trimOrNull(guarantorName),
                 guarantor_phone |-> trimOrNull(guarantorPhone)])
    /\ IF response'.result = "ok"
       THEN /\ toast' = Toast("Debtor Added", "registered")
            /\ Mounted("/")
       ELSE /\ toast' = Toast("Error", response'.result)
            /\ loading' = FALSE
            /\ UNCHANGED <<route, phase, fetch, pageDebtors, selectedDebtor>>
    /\ UNCHANGED <<auth, raceVars, searchVars>>

\* The user follows the link to the debt form; the page sends an identity
\* that may not write back to the dashboard, and else asks for the debtors.
MountAddDebt ==
    /\ route /= "/add-debt"
    /\ IF userRole /= "admin" /\ userRole /= "staff"
       THEN Mounted("/")
       ELSE Mounted("/add-debt")
    /\ SearchCleared
    /\ UNCHANGED <<roleVars, ledgerVars, idVars, response, auth, raceVars, toast>>

\* AddDebtPage.fetchDebtors: the store answers select('id, name,
\* phone_number') and the page keeps the rows.
AddDebtPage_setDebtors ==
    /\ route = "/add-debt"
    /\ phase = "query_debtors"
    /\ pageDebtors' = [d \in (IF auth /= NoUser /\ DebtorsSelectPolicy(auth)
                              THEN DOMAIN debtors ELSE {}) |->
                          [name |-> debtors[d].name,
                           phone_number |-> debtors[d].phone_number]]
    /\ phase' = "ready"
    /\ UNCHANGED <<roleVars, ledgerVars, idVars, response, auth, raceVars, searchVars,
                   route, fetch, selectedDebtor, loading, toast>>

\* AddDebtPage: the user chooses one of the debtors the page lists.
AddDebtPage_setSelectedDebtor(id) ==
    /\ route = "/add-debt"
    /\ phase = "ready"
    /\ id \in DOMAIN pageDebtors
    /\ selectedDebtor' = id
    /\ UNCHANGED <<roleVars, ledgerVars, idVars, response, auth, raceVars, searchVars,
                   route, phase, fetch, pageDebtors, loading, toast>>

\* AddDebtPage.handleSubmit: no debtor chosen ends in an error toast before
\* any request; else the debt is inserted with its reason trimmed, as the
\* signed-in identity, and only the success of the insert navigates to the
\* dashboard.
AddDebtPage_handleSubmit(amount, reason) ==
    /\ route = "/add-debt"
    /\ phase = "ready"
    /\ reason /= <<>>
    /\ IF selectedDebtor = 0
       THEN /\ toast' = Toast("Error", "Please select a debtor")
            /\ UNCHANGED <<roleVars, ledgerVars, idVars, response, route,
                           phase, fetch, pageDebtors, selectedDebtor,
                           loading>>
       ELSE IF auth = NoUser
       THEN /\ toast' = Toast("Error", "Not authenticated")
            /\ loading' = FALSE
            /\ UNCHANGED <<roleVars, ledgerVars, idVars, response, route,
                           phase, fetch, pageDebtors, selectedDebtor>>
       ELSE /\ InsertDebtRow(auth, [debtor_id |-> selectedDebtor,
                                    amount |-> amount,
                                    reason |-> trim(reason),
                                    created_by |-> auth])
            /\ IF response'.result = "ok"
               THEN /\ toast' = Toast("Debt Recorded", "debt recorded")
                    /\ Mounted("/")
               ELSE /\ toast' = Toast("Error", response'.result)
                    /\ loading' = FALSE
                    /\ UNCHANGED <<route, phase, fetch, pageDebtors,
                                   selectedDebtor>>
    /\ UNCHANGED <<auth, raceVars, searchVars>>

\* ------------------------------------------------ the forms specification

\* The three identities of Init; one of them has signed in and is on the
\* dashboard of the empty ledger.
InitForms ==
    /\ users = {1, 2, 3}
    /\ profiles = (1 :> "admin" @@ 2 :> "staff" @@ 3 :> "viewer")
    /\ user_roles = (<<1, "admin">> :> 1 @@ <<2, "staff">> :> 1
                        @@ <<3, "viewer">> :> 1)
    /\ EmptyLedger
    /\ auth \in users
    /\ NoRace
    /\ route = "/"
    /\ phase = "ready"
    /\ fetch = <<>>
    /\ pageDebtors = <<>>
    /\ selectedDebtor = 0
    /\ loading = FALSE
    /\ toast = NoToast
    /\ NoSearch

\* The signed-in identity registers debtors and records debts through the
\* two forms.
NextForms ==
    \/ MountAddDebtor
    \/ \E name, phoneNumber \in RequiredTexts,
          guarantorName, guarantorPhone \in OptionalTexts :
            /\ AddDebtorPage_handleSubmit(name, phoneNumber, guarantorName,
                                          guarantorPhone)
            /\ nextDebtorId' <= MaxFormDebtors
    \/ MountAddDebt
    \/ AddDebtPage_setDebtors
    \/ \E id \in DebtorIds : AddDebtPage_setSelectedDebtor(id)
    \/ \E amount \in FormAmounts, reason \in RequiredTexts :
            /\ AddDebtPage_handleSubmit(amount, reason)
            /\ nextDebtId' <= MaxDebts

SpecForms == InitForms /\ [][NextForms]_vars

\* ------------------------------------------------- the list specification

\* The three identities of Init; one of them has signed in and opened the
\* dashboard, whose debtors query is on its way.
InitList ==
    /\ users = {1, 2, 3}
    /\ profiles = (1 :> "admin" @@ 2 :> "staff" @@ 3 :> "viewer")
    /\ user_roles = (<<1, "admin">> :> 1 @@ <<2, "staff">> :> 1
                        @@ <<3, "viewer">> :> 1)
    /\ EmptyLedger
    /\ auth \in users
    /\ NoRace
    /\ route = "/"
    /\ phase = "query_debtors"
    /\ fetch = <<>>
    /\ pageDebtors = <<>>
    /\ selectedDebtor = 0
    /\ loading = FALSE
    /\ toast = NoToast
    /\ NoSearch

\* The dashboard lists while the staff identity registers debtors of either
\* name and records debts and payments.
NextList ==
    \/ \E uid \in users, name \in Names :
            /\ has_role(uid, "staff")
            /\ InsertDebtor(uid, name) /\ nextDebtorId' <= MaxDebtors
            /\ UNCHANGED pageVars
    \/ \E uid \in users, d \in DOMAIN debtors, a \in DebtAmounts :
            /\ has_role(uid, "staff")
            /\ InsertDebt(uid, d, a) /\ nextDebtId' <= MaxDebts
            /\ UNCHANGED pageVars
    \/ \E uid \in users, d \in DOMAIN debtors, a \in PaymentAmounts :
            /\ has_role(uid, "staff")
            /\ InsertPayment(uid, d, a) /\ nextPaymentId' <= MaxPayments
            /\ UNCHANGED pageVars
    \/ MountIndex
    \/ AnswerDebtors
    \/ \E d \in DebtorIds : AnswerDebts(d)
    \/ \E d \in DebtorIds : AnswerPayments(d)
    \/ setDebtors

SpecList == InitList /\ [][NextList]_vars

\* ----------------------------------------------- the submit specification

\* The session of the staff identity ends (its token expires) while a page
\* is open: auth.getUser() answers no user from then on.
SessionEnds ==
    /\ auth /= NoUser
    /\ auth' = NoUser
    /\ UNCHANGED <<raceVars, roleVars, ledgerVars, idVars, response, searchVars, route,
                   phase, fetch, pageDebtors, selectedDebtor, loading, toast>>

\* The three identities of Init; the staff identity has signed in and is on
\* the dashboard of the empty ledger.
InitSubmit ==
    /\ users = {1, 2, 3}
    /\ profiles = (1 :> "admin" @@ 2 :> "staff" @@ 3 :> "viewer")
    /\ user_roles = (<<1, "admin">> :> 1 @@ <<2, "staff">> :> 1
                        @@ <<3, "viewer">> :> 1)
    /\ EmptyLedger
    /\ auth \in {u \in users : RolesOf(u) = {"staff"}}
    /\ NoRace
    /\ route = "/"
    /\ phase = "ready"
    /\ fetch = <<>>
    /\ pageDebtors = <<>>
    /\ selectedDebtor = 0
    /\ loading = FALSE
    /\ toast = NoToast
    /\ NoSearch

\* The staff identity works through the three forms while the admin deletes
\* debtors and takes the staff role away, and while the session may end.
NextSubmit ==
    \/ MountAddDebtor
    \/ \E name \in RequiredTexts :
            /\ AddDebtorPage_handleSubmit(name, <<"5">>, <<>>, <<>>)
            /\ nextDebtorId' <= MaxFormDebtors
    \/ MountAddDebt
    \/ AddDebtPage_setDebtors
    \/ \E id \in DebtorIds : AddDebtPage_setSelectedDebtor(id)
    \/ \E amount \in DebtAmounts :
            /\ AddDebtPage_handleSubmit(amount, <<"A">>)
            /\ nextDebtId' <= MaxDebts
    \/ MountAddPayment
    \/ AnswerDebtors
    \/ \E d \in DebtorIds : AnswerDebts(d)
    \/ \E d \in DebtorIds : AnswerPayments(d)
    \/ setDebtors
    \/ \E id \in DebtorIds : setSelectedDebtor(id)
    \/ \E amount \in PaymentAmounts :
            handleSubmit(amount) /\ nextPaymentId' <= MaxPayments
    \/ \E uid \in users, id \in DOMAIN debtors :
            /\ has_role(uid, "admin")
            /\ DeleteDebtor(uid, id)
            /\ UNCHANGED pageVars
    \/ \E uid \in users, role \in app_role :
            /\ has_role(uid, "admin")
            /\ auth /= NoUser /\ has_role(auth, role)
            /\ DeleteUserRole(uid, auth, role)
            /\ UNCHANGED pageVars
    \/ SessionEnds

SpecSubmit == InitSubmit /\ [][NextSubmit]_vars

\* ------------------------------------------------------------- timestamps

\* The readings of the clock of the store.
Times == 1..MaxTime

\* now() does not run backwards: a statement reads a time that is not
\* before any time stored.
ClockReads(now) ==
    \A d \in DOMAIN debtors :
        debtors[d].created_at <= now /\ debtors[d].updated_at <= now

\* INSERT INTO debtors with the column defaults created_at = now() and
\* updated_at = now().
InsertDebtorAt(uid, row, now) ==
    /\ ClockReads(now)
    /\ InsertDebtorRow(uid, [name |-> row.name,
                             phone_number |-> row.phone_number,
                             guarantor_name |-> row.guarantor_name,
                             guarantor_phone |-> row.guarantor_phone,
                             created_at |-> now, updated_at |-> now])

\* A BEFORE UPDATE trigger that leaves the row as the statement set it.
update_updated_at_column_Off(new, now) == new

\* update_updated_at_column, the BEFORE UPDATE trigger of debtors:
\* NEW.updated_at = now()
update_updated_at_column(new, now) == [new EXCEPT !.updated_at = now]

\* UPDATE debtors SET name = .., updated_at = .. WHERE id = ..: the policy
\* is a USING; the trigger runs on the row the statement has set.
UpdateDebtorAt(uid, id, name, updated_at, now) ==
    /\ uid \in users
    /\ ClockReads(now)
    /\ IF DebtorsUpdatePolicy(uid) /\ id \in DOMAIN debtors
       THEN /\ debtors' = Put(debtors, id,
                update_updated_at_column(
                    [debtors[id] EXCEPT !.name = name,
                                        !.updated_at = updated_at], now))
            /\ response' = Answer("ok", 1)
       ELSE /\ response' = Answer("ok", 0)
            /\ UNCHANGED debtors
    /\ UNCHANGED <<roleVars, debts, payments, idVars>>

\* The three identities of Init; the admin or the staff identity has signed
\* in and is on the dashboard of the empty ledger.
InitStamp ==
    /\ users = {1, 2, 3}
    /\ profiles = (1 :> "admin" @@ 2 :> "staff" @@ 3 :> "viewer")
    /\ user_roles = (<<1, "admin">> :> 1 @@ <<2, "staff">> :> 1
                        @@ <<3, "viewer">> :> 1)
    /\ EmptyLedger
    /\ auth \in {u \in users : has_role(u, "admin") \/ has_role(u, "staff")}
    /\ NoRace
    /\ route = "/"
    /\ phase = "ready"
    /\ fetch = <<>>
    /\ pageDebtors = <<>>
    /\ selectedDebtor = 0
    /\ loading = FALSE
    /\ toast = NoToast
    /\ NoSearch

\* Debtors are inserted and updated at the store while the signed-in
\* identity records debts and payments through the forms.
NextStamp ==
    \/ \E uid \in users, row \in SearchRows, now \in Times :
            /\ has_role(uid, "staff")
            /\ InsertDebtorAt(uid, row, now)
            /\ nextDebtorId' <= MaxFormDebtors
            /\ UNCHANGED pageVars
    \/ \E uid \in users, id \in DOMAIN debtors, name \in {<<"A", "n">>, Bob},
          updated_at, now \in Times :
            /\ UpdateDebtorAt(uid, id, name, updated_at, now)
            /\ UNCHANGED pageVars
    \/ MountAddDebt
    \/ AddDebtPage_setDebtors
    \/ \E id \in DebtorIds : AddDebtPage_setSelectedDebtor(id)
    \/ \E amount \in DebtAmounts :
            /\ AddDebtPage_handleSubmit(amount, <<"A">>)
            /\ nextDebtId' <= MaxDebts
    \/ MountAddPayment
    \/ AnswerDebtors
    \/ \E d \in DebtorIds : AnswerDebts(d)
    \/ \E d \in DebtorIds : AnswerPayments(d)
    \/ setDebtors
    \/ \E id \in DebtorIds : setSelectedDebtor(id)
    \/ \E amount \in PaymentAmounts :
            handleSubmit(amount) /\ nextPaymentId' <= MaxPayments
    \/ \E uid, created_by \in users, d \in DebtorIds, amount \in DebtAmounts :
            /\ has_role(uid, "staff")
            /\ InsertDebtRow(uid, [debtor_id |-> d, amount |-> amount,
                                   reason |-> <<"A">>,
                                   created_by |-> created_by])
            /\ nextDebtId' <= MaxDebts
            /\ UNCHANGED pageVars

SpecStamp == InitStamp /\ [][NextStamp]_vars

\* ------------------------------------------------- inserts of two sessions

\* The row a form sends for a call: handleSubmit of AddDebtPage and of
\* AddPaymentPage, with the caller as created_by.
RowOfCall(c) ==
    IF c.table = "debts"
    THEN [debtor_id |-> c.debtor_id, amount |-> c.amount,
          reason |-> <<"A">>, created_by |-> c.caller]
    ELSE [debtor_id |-> c.debtor_id, amount |-> c.amount,
          created_by |-> c.caller]

\* The insert of a session reaches the store: one statement, one step.
Commit(c) ==
    /\ c \notin calls
    /\ Cardinality(calls) < MaxCalls
    /\ calls' = calls \cup {c}
    /\ IF c.table = "debts"
       THEN InsertDebtRow(c.caller, RowOfCall(c))
       ELSE InsertPaymentRow(c.caller, RowOfCall(c))
    /\ UNCHANGED <<seen, viewVars>>

\* Two debtors are registered and the viewer's dashboard is loaded.
InitRace ==
    /\ users = {1, 2, 3}
    /\ profiles = (1 :> "admin" @@ 2 :> "staff" @@ 3 :> "viewer")
    /\ user_roles = (<<1, "admin">> :> 1 @@ <<2, "staff">> :> 1
                        @@ <<3, "viewer">> :> 1)
    /\ debtors = (1 :> [name |-> Ann] @@ 2 :> [name |-> Bob])
    /\ debts = <<>>
    /\ payments = <<>>
    /\ nextDebtorId = 2
    /\ nextDebtId = 0
    /\ nextPaymentId = 0
    /\ response = NoAnswer
    /\ auth = 3
    /\ calls = {}
    /\ seen = {}
    /\ route = "/"
    /\ phase = "ready"
    /\ fetch = <<>>
    /\ pageDebtors = <<>>
    /\ selectedDebtor = 0
    /\ loading = FALSE
    /\ toast = NoToast
    /\ NoSearch

\* Sessions of the identities send inserts of debts and payments in any
\* order; the dashboard is read once every call has been answered.
NextRace ==
    \/ \E uid \in users, d \in DOMAIN debtors, a \in DebtAmounts :
            Commit([caller |-> uid, table |-> "debts",
                    debtor_id |-> d, amount |-> a])
    \/ \E uid \in users, d \in DOMAIN debtors, a \in PaymentAmounts :
            Commit([caller |-> uid, table |-> "payments",
                    debtor_id |-> d, amount |-> a])
    \/ Cardinality(calls) = MaxCalls /\ MountIndex
    \/ AnswerDebtors
    \/ \E d \in DebtorIds : AnswerDebts(d)
    \/ \E d \in DebtorIds : AnswerPayments(d)
    \/ setDebtors

SpecRace == InitRace /\ [][NextRace]_vars

\* ------------------------------------------- two sessions on the payment page

\* Another session of an identity that may write has loaded the payment page
\* and chosen a debtor it lists: fetchDebtorsWithBalance keeps the debtors
\* with balance > 0, each with the balance of the moment.
OtherSessionLoads(uid, d) ==
    /\ uid \in users
    /\ canWrite(get_user_role(uid))
    /\ d \in DOMAIN debtors
    /\ LET balance == SnapshotOf(d).total_debt - SnapshotOf(d).total_paid
       IN  /\ balance > 0
           /\ calls' = calls \cup
                {[caller |-> uid, debtor_id |-> d, balance |-> balance]}
    /\ calls = {}
    /\ UNCHANGED <<roleVars, ledgerVars, idVars, response, seen, viewVars>>

\* The other session submits: handleSubmit compares the amount with the
\* balance its page loaded, and inserts.
OtherSessionSubmits(c, amount) ==
    /\ c \in calls
    /\ ~exceedsBalance(amount, c.balance)
    /\ InsertPaymentRow(c.caller, [debtor_id |-> c.debtor_id,
                                   amount |-> amount,
                                   created_by |-> c.caller])
    /\ calls' = calls \ {c}
    /\ UNCHANGED <<seen, viewVars>>

\* As InitPay, for a session of an identity that may write.
InitOverpay ==
    /\ users = {1, 2, 3}
    /\ profiles = (1 :> "admin" @@ 2 :> "staff" @@ 3 :> "viewer")
    /\ user_roles = (<<1, "admin">> :> 1 @@ <<2, "staff">> :> 1
                        @@ <<3, "viewer">> :> 1)
    /\ EmptyLedger
    /\ auth \in {u \in users : canWrite(get_user_role(u))}
    /\ NoRace
    /\ route = "/"
    /\ phase = "ready"
    /\ fetch = <<>>
    /\ pageDebtors = <<>>
    /\ selectedDebtor = 0
    /\ loading = FALSE
    /\ toast = NoToast
    /\ NoSearch

\* Debtors and debts are only added, and every payment goes through
\* handleSubmit of the payment page, of this session or of another.
NextOverpay ==
    \/ \E uid \in users :
            /\ DebtorsInsertPolicy(uid)
            /\ InsertDebtor(uid, Ann) /\ nextDebtorId' <= MaxFormDebtors
            /\ UNCHANGED pageVars
    \/ \E uid \in users, d \in DOMAIN debtors, a \in DebtAmounts :
            /\ DebtsInsertPolicy(uid)
            /\ InsertDebt(uid, d, a) /\ nextDebtId' <= MaxDebts
            /\ UNCHANGED pageVars
    \/ MountAddPayment
    \/ AnswerDebtors
    \/ \E d \in DebtorIds : AnswerDebts(d)
    \/ \E d \in DebtorIds : AnswerPayments(d)
    \/ setDebtors
    \/ \E id \in DebtorIds : setSelectedDebtor(id)
    \/ \E amount \in PaymentAmounts :
            handleSubmit(amount) /\ nextPaymentId' <= MaxRacePayments
    \/ \E uid \in users, d \in DebtorIds : OtherSessionLoads(uid, d)
    \/ \E c \in calls, amount \in PaymentAmounts :
            OtherSessionSubmits(c, amount) /\ nextPaymentId' <= MaxRacePayments

SpecOverpay == InitOverpay /\ [][NextOverpay]_vars

\* --------------------------------------------- the store during one read

\* What the store holds of every debtor id.
StoreTotals ==
    {[id |-> d, total_debt |-> SnapshotOf(d).total_debt,
      total_paid |-> SnapshotOf(d).total_paid] : d \in DebtorIds}

\* A statement of another session commits: while the dashboard is reading,
\* the totals the store holds after it are remembered.
Commits ==
    /\ seen' = IF phase = "ready" THEN seen ELSE seen \cup StoreTotals'
    /\ UNCHANGED <<calls, viewVars>>

\* The viewer's dashboard has just been mounted on the empty ledger: its
\* effect has sent the debtors query.
InitSnap ==
    /\ users = {1, 2, 3}
    /\ profiles = (1 :> "admin" @@ 2 :> "staff" @@ 3 :> "viewer")
    /\ user_roles = (<<1, "admin">> :> 1 @@ <<2, "staff">> :> 1
                        @@ <<3, "viewer">> :> 1)
    /\ EmptyLedger
    /\ auth = 3
    /\ calls = {}
    /\ seen = StoreTotals
    /\ route = "/"
    /\ phase = "query_debtors"
    /\ fetch = <<>>
    /\ pageDebtors = <<>>
    /\ selectedDebtor = 0
    /\ loading = FALSE
    /\ toast = NoToast
    /\ NoSearch

\* One read of the dashboard while the staff identity inserts and the admin
\* deletes.
NextSnap ==
    \/ \E uid \in users :
            /\ has_role(uid, "staff")
            /\ InsertDebtor(uid, Ann) /\ nextDebtorId' <= MaxFormDebtors
            /\ Commits
    \/ \E uid \in users, d \in DOMAIN debtors, a \in DebtAmounts :
            /\ has_role(uid, "staff")
            /\ InsertDebt(uid, d, a) /\ nextDebtId' <= MaxDebts
            /\ Commits
    \/ \E uid \in users, d \in DOMAIN debtors, a \in PaymentAmounts :
            /\ has_role(uid, "staff")
            /\ InsertPayment(uid, d, a) /\ nextPaymentId' <= MaxPayments
            /\ Commits
    \/ \E uid \in users, id \in DOMAIN debtors :
            /\ has_role(uid, "admin")
            /\ DeleteDebtor(uid, id)
            /\ Commits
    \/ AnswerDebtors
    \/ \E d \in DebtorIds : AnswerDebts(d)
    \/ \E d \in DebtorIds : AnswerPayments(d)
    \/ setDebtors

SpecSnap == InitSnap /\ [][NextSnap]_vars

\* ------------------------------------------------ submits, await by await

\* The user follows the navigation link to the search page: its state is
\* the initial state of its hooks.
MountSearch ==
    /\ phase = "ready"
    /\ route /= "/search"
    /\ route' = "/search"
    /\ fetch' = <<>>
    /\ pageDebtors' = <<>>
    /\ selectedDebtor' = 0
    /\ loading' = FALSE
    /\ SearchCleared
    /\ UNCHANGED <<roleVars, ledgerVars, idVars, response, auth, raceVars,
                   phase, toast>>

\* AddPaymentPage.handleSubmit up to its first await: no debtor chosen
\* returns before setLoading(true), an amount above the loaded balance
\* returns after setLoading(false); else the requests are on their way and
\* loading is true.
AddPaymentPage_handleSubmit_Sends(amount) ==
    /\ route = "/add-payment"
    /\ phase = "ready"
    /\ IF selectedDebtor = 0
       THEN /\ toast' = Toast("Error", "Please select a debtor")
            /\ UNCHANGED <<phase, loading, calls>>
       ELSE IF /\ selectedDebtor \in DOMAIN pageDebtors
               /\ exceedsBalance(amount, pageDebtors[selectedDebtor].balance)
       THEN /\ toast' = Toast("Error",
                            "Payment amount exceeds outstanding balance")
            /\ loading' = FALSE
            /\ UNCHANGED <<phase, calls>>
       ELSE /\ loading' = TRUE
            /\ phase' = "submit"
            /\ calls' = {[caller |-> auth, table |-> "payments",
                          debtor_id |-> selectedDebtor, amount |-> amount]}
            /\ UNCHANGED toast
    /\ UNCHANGED <<roleVars, ledgerVars, idVars, response, auth, seen,
                   searchVars, route, fetch, pageDebtors, selectedDebtor>>

\* AddDebtPage.handleSubmit up to its first await.
AddDebtPage_handleSubmit_Sends(amount) ==
    /\ route = "/add-debt"
    /\ phase = "ready"
    /\ IF selectedDebtor = 0
       THEN /\ toast' = Toast("Error", "Please select a debtor")
            /\ UNCHANGED <<phase, loading, calls>>
       ELSE /\ loading' = TRUE
            /\ phase' = "submit"
            /\ calls' = {[caller |-> auth, table |-> "debts",
                          debtor_id |-> selectedDebtor, amount |-> amount]}
            /\ UNCHANGED toast
    /\ UNCHANGED <<roleVars, ledgerVars, idVars, response, auth, seen,
                   searchVars, route, fetch, pageDebtors, selectedDebtor>>

\* A finally block that does not run: the handler ends as it stands.
finally_Skipped(flag) == flag

\* finally { setLoading(false) }
finally(flag) == FALSE

\* auth.getUser() and the insert are answered: no user, or an error of the
\* insert, is thrown into the catch, which shows the error toast; the
\* success shows its toast and navigates to the dashboard; finally sets
\* loading to false.
handleSubmit_Settles ==
    /\ phase = "submit"
    /\ \E c \in calls :
        IF auth = NoUser
        THEN /\ toast' = Toast("Error", "Not authenticated")
             /\ loading' = finally(loading)
             /\ phase' = "ready"
             /\ UNCHANGED <<roleVars, ledgerVars, idVars, response, route,
                            fetch, pageDebtors, selectedDebtor>>
        ELSE /\ IF c.table = "debts"
                THEN InsertDebtRow(auth, RowOfCall([c EXCEPT !.caller = auth]))
                ELSE InsertPaymentRow(auth,
                                      RowOfCall([c EXCEPT !.caller = auth]))
             /\ IF response'.result = "ok"
                THEN /\ toast' = IF c.table = "debts"
                                 THEN Toast("Debt Recorded", "debt recorded")
                                 ELSE Toast("Payment Recorded",
                                            "payment recorded")
                     /\ Mounted("/")
                ELSE /\ toast' = Toast("Error", response'.result)
                     /\ loading' = finally(loading)
                     /\ phase' = "ready"
                     /\ UNCHANGED <<route, fetch, pageDebtors, selectedDebtor>>
    /\ calls' = {}
    /\ UNCHANGED <<auth, seen, searchVars>>

\* The store does not answer the insert (it is unavailable): the client
\* gives an error, the catch shows it, finally sets loading to false.
handleSubmit_Fails ==
    /\ phase = "submit"
    /\ response' = Answer("unavailable", 0)
    /\ toast' = Toast("Error", "unavailable")
    /\ loading' = finally(loading)
    /\ phase' = "ready"
    /\ calls' = {}
    /\ UNCHANGED <<roleVars, ledgerVars, idVars, auth, seen, searchVars,
                   route, fetch, pageDebtors, selectedDebtor>>

\* Index: loading is true from the mount of the dashboard until the finally
\* of fetchDebtors.
IndexLoading == route = "/" /\ phase /= "ready"

\* Index.fetchDebtors: the debtors query fails, the catch logs the error and
\* finally sets loading to false.
FailDebtors ==
    /\ route = "/"
    /\ phase = "query_debtors"
    /\ response' = Answer("unavailable", 0)
    /\ phase' = "ready"
    /\ UNCHANGED <<roleVars, ledgerVars, idVars, auth, raceVars, searchVars,
                   route, fetch, pageDebtors, selectedDebtor, loading, toast>>

\* The staff identity has signed in and is on the dashboard; a debtor with a
\* debt is registered.
InitLive ==
    /\ users = {1, 2, 3}
    /\ profiles = (1 :> "admin" @@ 2 :> "staff" @@ 3 :> "viewer")
    /\ user_roles = (<<1, "admin">> :> 1 @@ <<2, "staff">> :> 1
                        @@ <<3, "viewer">> :> 1)
    /\ debtors = (1 :> [name |-> <<"A", "n">>, phone_number |-> <<"5", "1">>,
                        guarantor_name |-> NULL, guarantor_phone |-> NULL])
    /\ debts = (1 :> [debtor_id |-> 1, amount |-> 5000])
    /\ payments = <<>>
    /\ nextDebtorId = 1
    /\ nextDebtId = 1
    /\ nextPaymentId = 0
    /\ response = NoAnswer
    /\ auth = 2
    /\ NoRace
    /\ route = "/"
    /\ phase = "ready"
    /\ fetch = <<>>
    /\ pageDebtors = <<>>
    /\ selectedDebtor = 0
    /\ loading = FALSE
    /\ toast = NoToast
    /\ NoSearch

\* The staff identity goes from page to page, submits and searches; every
\* request is a step of its own, and the session may end at any time.
NextLive ==
    \/ MountIndex
    \/ MountAddPayment
    \/ phase = "ready" /\ MountAddDebt
    \/ MountSearch
    \/ AnswerDebtors
    \/ FailDebtors
    \/ \E d \in DebtorIds : AnswerDebts(d)
    \/ \E d \in DebtorIds : AnswerPayments(d)
    \/ \E d \in DebtorIds : FailDebts(d)
    \/ \E d \in DebtorIds : FailPayments(d)
    \/ setDebtors
    \/ \E id \in DebtorIds : setSelectedDebtor(id)
    \/ \E amount \in PaymentAmounts :
            /\ nextPaymentId < MaxPayments
            /\ AddPaymentPage_handleSubmit_Sends(amount)
    \/ AddDebtPage_setDebtors
    \/ \E id \in DebtorIds : AddDebtPage_setSelectedDebtor(id)
    \/ \E amount \in DebtAmounts :
            /\ nextDebtId < MaxPageDebts
            /\ AddDebtPage_handleSubmit_Sends(amount)
    \/ handleSubmit_Settles
    \/ handleSubmit_Fails
    \/ \E term \in {<<"a">>, <<"z">>, <<" ">>} : setSearchTerm(term)
    \/ handleSearch
    \/ AnswerSearch
    \/ FailSearch
    \/ setSearchResult
    \/ SessionEnds

\* Every request is settled, with an answer or with an error, and the
\* continuation of its await runs.
Settled ==
    /\ WF_vars(handleSubmit_Settles \/ handleSubmit_Fails)
    /\ WF_vars(AnswerSearch \/ FailSearch)
    /\ WF_vars(AnswerDebtors \/ FailDebtors)
    /\ WF_vars(\E d \in DebtorIds : AnswerDebts(d) \/ FailDebts(d))
    /\ WF_vars(\E d \in DebtorIds : AnswerPayments(d) \/ FailPayments(d))
    /\ WF_vars(setDebtors)
    /\ WF_vars(setSearchResult)

SpecLive == InitLive /\ [][NextLive]_vars /\ Settled

\* ------------------------------------------- amounts as JavaScript numbers

\* A JavaScript number is an IEEE 754 double: sign * m * 2^e with m a
\* mantissa of MantissaBits bits, written here as a sequence of bits, the
\* highest first; 0 has the empty mantissa. The amounts of the store are far
\* from the ends of the exponent range.
MantissaBits == 53

\* Bits after the binary point that the quotient by 100 is carried to.
QuotientBits == MantissaBits + 11

Zeros(n) == [i \in 1..n |-> 0]

\* The arithmetic on sequences of bits goes by limbs of LimbBits bits.
LimbBits == 16

\* The w lowest bits of a natural number.
BitsOf(n, w) == [i \in 1..w |-> (n \div 2^(w - i)) % 2]

\* The number that at most LimbBits bits stand for.
RECURSIVE Val(_)
Val(b) ==
    IF b = <<>> THEN 0
    ELSE 2 * Val(SubSeq(b, 1, Len(b) - 1)) + b[Len(b)]

\* A sequence of bits without its leading zeros.
Strip(b) ==
    LET ones == {i \in DOMAIN b : b[i] = 1}
    IN  IF ones = {} THEN <<>>
        ELSE SubSeq(b, CHOOSE i \in ones : \A j \in ones : i <= j, Len(b))

\* The bits of a natural number.
Bin(n) == Strip(BitsOf(n, 31))

PadLeft(b, n) == Zeros(n - Len(b)) \o b

\* The limbs of a sequence of bits, the highest first, n of them.
Limbs(b, n) ==
    LET p == PadLeft(b, n * LimbBits)
    IN  [k \in 1..n |->
            Val(SubSeq(p, (k - 1) * LimbBits + 1, k * LimbBits))]

\* The bits of a sequence of limbs.
Unlimbs(l) ==
    [i \in 1..(Len(l) * LimbBits) |->
        BitsOf(l[((i - 1) \div LimbBits) + 1], LimbBits)[((i - 1) % LimbBits) + 1]]

LimbsFor(a, b) ==
    LET n == IF Len(a) > Len(b) THEN Len(a) ELSE Len(b)
    IN  (n \div LimbBits) + 1

\* a + b + c of two sequences of limbs of one length and a carry.
RECURSIVE AddLimbsC(_, _, _)
AddLimbsC(a, b, c) ==
    IF a = <<>> THEN <<c>>
    ELSE LET n == Len(a)
             t == a[n] + b[n] + c
         IN  AddLimbsC(SubSeq(a, 1, n - 1), SubSeq(b, 1, n - 1),
                       t \div 2^LimbBits)
                \o <<t % 2^LimbBits>>

AddBits(a, b) ==
    LET n == LimbsFor(a, b)
    IN  Strip(Unlimbs(AddLimbsC(Limbs(a, n), Limbs(b, n), 0)))

\* a - b - c of two sequences of limbs of one length and a borrow, a >= b.
RECURSIVE SubLimbsC(_, _, _)
SubLimbsC(a, b, c) ==
    IF a = <<>> THEN <<>>
    ELSE LET n == Len(a)
             t == a[n] - b[n] - c
         IN  SubLimbsC(SubSeq(a, 1, n - 1), SubSeq(b, 1, n - 1),
                       IF t < 0 THEN 1 ELSE 0)
                \o <<IF t < 0 THEN t + 2^LimbBits ELSE t>>

SubBits(a, b) ==
    LET n == LimbsFor(a, b)
    IN  Strip(Unlimbs(SubLimbsC(Limbs(a, n), Limbs(b, n), 0)))

\* a < b, of two sequences of bits without leading zeros.
LessBits(a, b) ==
    IF Len(a) /= Len(b) THEN Len(a) < Len(b)
    ELSE LET differ == {i \in DOMAIN a : a[i] /= b[i]}
         IN  /\ differ /= {}
             /\ LET i == CHOOSE x \in differ : \A y \in differ : x <= y
                IN  a[i] < b[i]

\* The quotient and the remainder of a sequence of limbs by a small number.
RECURSIVE DivLimbs(_, _)
DivLimbs(l, d) ==
    IF l = <<>> THEN [q |-> <<>>, r |-> 0]
    ELSE LET n == Len(l)
             p == DivLimbs(SubSeq(l, 1, n - 1), d)
             t == p.r * 2^LimbBits + l[n]
         IN  [q |-> p.q \o <<t \div d>>, r |-> t % d]

\* The quotient and the remainder of a sequence of bits by a small number.
DivBits(b, d) ==
    LET p == DivLimbs(Limbs(b, LimbsFor(b, b)), d)
    IN  [q |-> Strip(Unlimbs(p.q)), r |-> p.r]

zero == [sign |-> 1, m |-> <<>>, e |-> 0]

\* The double nearest to bits * 2^e, ties to the even mantissa.
RoundToDouble(sign, bits, e) ==
    LET b == Strip(bits)
        n == Len(b)
    IN  IF n = 0 THEN zero
        ELSE IF n <= MantissaBits
        THEN [sign |-> sign, m |-> b \o Zeros(MantissaBits - n),
              e |-> e - (MantissaBits - n)]
        ELSE LET keep == SubSeq(b, 1, MantissaBits)
                 guard == b[MantissaBits + 1]
                 rest == \E i \in (MantissaBits + 2)..n : b[i] = 1
                 up == guard = 1 /\ (rest \/ keep[MantissaBits] = 1)
                 m == IF up THEN AddBits(keep, <<1>>) ELSE keep
             IN  IF Len(m) > MantissaBits
                 THEN [sign |-> sign, m |-> SubSeq(m, 1, MantissaBits),
                       e |-> e + (n - MantissaBits) + 1]
                 ELSE [sign |-> sign, m |-> m, e |-> e + (n - MantissaBits)]

\* The number the client holds for an amount of the store: the JSON number
\* of the DECIMAL(12,2), cents / 100, parsed to the nearest double.
toDouble(cents) ==
    LET abs == IF cents < 0 THEN -cents ELSE cents
        d == DivBits(Bin(abs) \o Zeros(QuotientBits), 100)
    IN  RoundToDouble(IF cents < 0 THEN -1 ELSE 1,
                      d.q \o (IF d.r = 0 THEN <<0>> ELSE <<1>>),
                      -(QuotientBits + 1))

\* x + y and x - y of doubles: the exact result, rounded.
fadd(x, y) ==
    LET e == IF x.e < y.e THEN x.e ELSE y.e
        xb == IF x.m = <<>> THEN <<>> ELSE x.m \o Zeros(x.e - e)
        yb == IF y.m = <<>> THEN <<>> ELSE y.m \o Zeros(y.e - e)
    IN  IF x.sign = y.sign
        THEN RoundToDouble(x.sign, AddBits(xb, yb), e)
        ELSE IF LessBits(xb, yb)
        THEN RoundToDouble(y.sign, SubBits(yb, xb), e)
        ELSE RoundToDouble(x.sign, SubBits(xb, yb), e)

fsub(x, y) == fadd(x, [y EXCEPT !.sign = -y.sign])

\* data.reduce((sum, row) => sum + Number(row.amount), 0) in the numbers of
\* the client; data holds the amounts in cents.
RECURSIVE reduceDouble(_)
reduceDouble(data) ==
    IF data = <<>> THEN zero
    ELSE fadd(reduceDouble(SubSeq(data, 1, Len(data) - 1)),
              toDouble(data[Len(data)]))

\* result.data?.reduce(..) || 0 in the numbers of the client.
totalOfDouble(result) ==
    IF result.error THEN zero ELSE reduceDouble(result.data)

\* Index: { ...debtor, total_debt, total_paid, balance } in the numbers of
\* the client.
withTotalsDouble(f) ==
    LET totalDebt == totalOfDouble(f.debts)
        totalPaid == totalOfDouble(f.payments)
    IN  [name |-> f.name, pos |-> f.pos, total_debt |-> totalDebt,
         total_paid |-> totalPaid, balance |-> fsub(totalDebt, totalPaid)]

\* debtor.balance > 0: the badge of the dashboard says Owes.
Owes(balance) == balance.sign = 1 /\ balance.m /= <<>>

\* Every query of the dashboard is answered: setDebtors, with the totals as
\* the client computes them.
setDebtorsDouble ==
    /\ route = "/"
    /\ phase = "query_totals"
    /\ \A d \in DOMAIN fetch : fetch[d].debts.done /\ fetch[d].payments.done
    /\ pageDebtors' = [d \in DOMAIN fetch |-> withTotalsDouble(fetch[d])]
    /\ phase' = "ready"
    /\ fetch' = <<>>
    /\ UNCHANGED <<roleVars, ledgerVars, idVars, response, auth, raceVars,
                   searchVars, route, selectedDebtor, loading, toast>>

\* Amounts in cents: 0.10, 0.20 and 0.30.
SmallDebts == {10, 20}
SmallPayments == {30}

\* The viewer's dashboard has just been mounted on the empty ledger.
InitFloat ==
    /\ users = {1, 2, 3}
    /\ profiles = (1 :> "admin" @@ 2 :> "staff" @@ 3 :> "viewer")
    /\ user_roles = (<<1, "admin">> :> 1 @@ <<2, "staff">> :> 1
                        @@ <<3, "viewer">> :> 1)
    /\ EmptyLedger
    /\ auth = 3
    /\ NoRace
    /\ route = "/"
    /\ phase = "query_debtors"
    /\ fetch = <<>>
    /\ pageDebtors = <<>>
    /\ selectedDebtor = 0
    /\ loading = FALSE
    /\ toast = NoToast
    /\ NoSearch

\* The dashboard is read while the staff identity records small amounts.
NextFloat ==
    \/ \E uid \in users :
            /\ has_role(uid, "staff")
            /\ InsertDebtor(uid, Ann) /\ nextDebtorId' <= MaxFormDebtors
            /\ UNCHANGED pageVars
    \/ \E uid \in users, d \in DOMAIN debtors, a \in SmallDebts :
            /\ has_role(uid, "staff")
            /\ InsertDebt(uid, d, a) /\ nextDebtId' <= MaxPageDebts
            /\ UNCHANGED pageVars
    \/ \E uid \in users, d \in DOMAIN debtors, a \in SmallPayments :
            /\ has_role(uid, "staff")
            /\ InsertPayment(uid, d, a) /\ nextPaymentId' <= MaxPayments
            /\ UNCHANGED pageVars
    \/ MountIndex
    \/ AnswerDebtors
    \/ \E d \in DebtorIds : AnswerDebts(d)
    \/ \E d \in DebtorIds : AnswerPayments(d)
    \/ setDebtorsDouble

SpecFloat == InitFloat /\ [][NextFloat]_vars

\* -------------------------------------------------------------- properties

\* The identity holds the one role r in user_roles.
HoldsOnly(uid, r) == RolesOf(uid) = {r}

\* The step is a request of the kind by the identity, whatever its arguments.
InsertBy(uid) ==
    \/ \E n \in Names : InsertDebtor(uid, n)
    \/ \E d \in DebtorIds, a \in StoreAmounts :
            InsertDebt(uid, d, a) \/ InsertPayment(uid, d, a)

UpdateBy(uid) ==
    \/ \E id \in DebtorIds, n \in Names : UpdateDebtor(uid, id, n)
    \/ \E id \in DebtIds, d \in DebtorIds, a \in StoreAmounts :
            UpdateDebt(uid, id, d, a)
    \/ \E id \in PaymentIds, d \in DebtorIds, a \in StoreAmounts :
            UpdatePayment(uid, id, d, a)

DeleteDebtorBy(uid) == \E d \in DebtorIds : DeleteDebtor(uid, d)

DeleteBy(uid) ==
    \/ DeleteDebtorBy(uid)
    \/ \E id \in DebtIds : DeleteDebt(uid, id)
    \/ \E id \in PaymentIds : DeletePayment(uid, id)

RoleWriteBy(uid) ==
    \E user_id \in UserIds, role \in app_role :
        \/ InsertUserRole(uid, user_id, role)
        \/ DeleteUserRole(uid, user_id, role)
        \/ \E new_user_id \in UserIds, new_role \in app_role :
                UpdateUserRole(uid, user_id, role, new_user_id, new_role)

\* C2, as stated: each of registerDebtor, recordDebt, recordPayment and
\* deleteDebtor, requested by a viewer, fails with Forbidden and leaves
\* debtors, debts and payments unchanged.
C2_AllFourForbidden ==
    [][\A uid \in users :
        (HoldsOnly(uid, "viewer") /\ (InsertBy(uid) \/ DeleteDebtorBy(uid)))
        => (response'.result = "rls_violation" /\ UNCHANGED ledgerVars)]_vars

\* C2, amended: requested by a viewer, the three inserts fail with the
\* row-level security error and deleteDebtor succeeds on no row (the delete
\* policy filters, it raises nothing); all four leave debtors, debts and
\* payments unchanged.
ViewerWriteRefused(uid) ==
    /\ (response'.result = "rls_violation" /\ UNCHANGED ledgerVars)
        \/ ~InsertBy(uid)
    /\ (response' = Answer("ok", 0) /\ UNCHANGED ledgerVars)
        \/ ~DeleteDebtorBy(uid)

C2_ViewerWritesRefused ==
    [][\A uid \in users :
        HoldsOnly(uid, "viewer") => ViewerWriteRefused(uid)]_vars

\* An insert has just been refused by row-level security while every debtor
\* id resolved and a debt was recorded.
C2_Witness ==
    /\ response.result = "rls_violation"
    /\ DOMAIN debtors = DebtorIds
    /\ debts /= <<>>

\* C3: a delete of a debtor takes effect only for an identity that holds the
\* admin role; requested by any other identity it removes no debtor, debt or
\* payment row.
DeleteNeedsAdmin ==
    \A uid \in users :
        DeleteDebtorBy(uid)
        => /\ response'.rows > 0 => has_role(uid, "admin")
           /\ ~has_role(uid, "admin") => UNCHANGED ledgerVars

C3_DeleteAdminOnly == [][DeleteNeedsAdmin]_vars

\* A debtor has been deleted (one of two registered), and a debt and a
\* payment of the other debtor are recorded.
C3_Witness ==
    /\ nextDebtorId = 2
    /\ Cardinality(DOMAIN debtors) = 1
    /\ debts /= <<>>
    /\ payments /= <<>>

\* C4: every debt row and every payment row references a debtor that exists;
\* an insert whose debtor id does not resolve is rejected and changes
\* nothing, and the delete of a debtor leaves no row that references it.
RefIntegrity ==
    /\ \A i \in DOMAIN debts : debts[i].debtor_id \in DOMAIN debtors
    /\ \A i \in DOMAIN payments : payments[i].debtor_id \in DOMAIN debtors

RejectsDanglingInsert ==
    \/ response'.result /= "ok" /\ UNCHANGED ledgerVars
    \/ \A uid \in users, d \in DebtorIds \ DOMAIN debtors, a \in StoreAmounts :
            ~(InsertDebt(uid, d, a) \/ InsertPayment(uid, d, a))

CascadeComplete ==
    \A uid \in users, d \in DOMAIN debtors :
        (response'.rows = 1 /\ d \notin DOMAIN debtors' /\ DeleteDebtor(uid, d))
        => /\ d \notin DOMAIN debtors'
           /\ \A i \in DOMAIN debts' : debts'[i].debtor_id /= d
           /\ \A i \in DOMAIN payments' : payments'[i].debtor_id /= d
           /\ \A i \in DOMAIN debts :
                debts[i].debtor_id /= d
                => (i \in DOMAIN debts' /\ debts'[i] = debts[i])
           /\ \A i \in DOMAIN payments :
                payments[i].debtor_id /= d
                => (i \in DOMAIN payments' /\ payments'[i] = payments[i])

C4_ReferentialIntegrity ==
    /\ []RefIntegrity
    /\ [][RejectsDanglingInsert /\ CascadeComplete]_vars

\* An insert has just failed on the foreign key after a debtor was deleted
\* and its debt with it, while the payment of the other debtor stayed.
C4_Witness ==
    /\ response.result = "fk_violation"
    /\ nextDebtorId = 2
    /\ Cardinality(DOMAIN debtors) = 1
    /\ nextDebtId = 1
    /\ debts = <<>>
    /\ payments /= <<>>

\* C7: every stored debt and payment has amount > 0; an insert or update
\* with amount <= 0 stores nothing and, requested by an identity that may
\* write the row, fails on the CHECK constraint.
AmountsPositive ==
    /\ \A i \in DOMAIN debts : debts[i].amount > 0
    /\ \A i \in DOMAIN payments : payments[i].amount > 0

NonPositiveBy(uid) ==
    \E d \in DebtorIds, a \in {x \in StoreAmounts : x <= 0} :
        \/ InsertDebt(uid, d, a)
        \/ InsertPayment(uid, d, a)
        \/ \E id \in DOMAIN debts : UpdateDebt(uid, id, d, a)
        \/ \E id \in DOMAIN payments : UpdatePayment(uid, id, d, a)

RejectsNonPositive ==
    \/ /\ response'.rows = 0
       /\ UNCHANGED ledgerVars
       /\ \/ response'.result = "check_violation"
          \/ \A uid \in users :
                (has_role(uid, "admin") \/ has_role(uid, "staff"))
                => ~NonPositiveBy(uid)
    \/ \A uid \in users : ~NonPositiveBy(uid)

C7_AmountsPositive ==
    /\ []AmountsPositive
    /\ [][RejectsNonPositive]_vars

\* A writer's request with amount <= 0 has just been rejected by the CHECK
\* constraint, with a debt and a payment stored.
C7_Witness ==
    /\ response.result = "check_violation"
    /\ debts /= <<>>
    /\ payments /= <<>>

\* C9: for an identity that holds one role r, every insert and update
\* policy of debtors, debts and payments admits it exactly when r is staff
\* or admin (as the navigation's canWrite does), every delete policy exactly
\* when r is admin, every select policy always; a request changes the ledger
\* only under a role its policy admits, and a valid insert under such a role
\* is carried out.
PoliciesByRole(uid, r) ==
    /\ DebtorsSelectPolicy(uid) /\ DebtsSelectPolicy(uid)
    /\ PaymentsSelectPolicy(uid)
    /\ DebtorsInsertPolicy(uid) <=> r \in {"staff", "admin"}
    /\ DebtsInsertPolicy(uid) <=> r \in {"staff", "admin"}
    /\ PaymentsInsertPolicy(uid) <=> r \in {"staff", "admin"}
    /\ DebtorsUpdatePolicy(uid) <=> r \in {"staff", "admin"}
    /\ DebtsUpdatePolicy(uid) <=> r \in {"staff", "admin"}
    /\ PaymentsUpdatePolicy(uid) <=> r \in {"staff", "admin"}
    /\ DebtorsDeletePolicy(uid) <=> r = "admin"
    /\ DebtsDeletePolicy(uid) <=> r = "admin"
    /\ PaymentsDeletePolicy(uid) <=> r = "admin"
    /\ canWrite(r) <=> r \in {"staff", "admin"}

ChangeNeedsPermission ==
    \/ UNCHANGED ledgerVars
    \/ \A uid \in users, r \in app_role :
        HoldsOnly(uid, r)
        => /\ canWrite(r) \/ ~(InsertBy(uid) \/ UpdateBy(uid))
           /\ r = "admin" \/ ~DeleteBy(uid)

PermissionSuffices ==
    \/ response' = Answer("ok", 1)
    \/ \A uid \in users, r \in {x \in app_role : canWrite(x)} :
        HoldsOnly(uid, r)
        => /\ \A n \in Names : ~InsertDebtor(uid, n)
           /\ \A d \in DOMAIN debtors, a \in {x \in StoreAmounts : x > 0} :
                ~(InsertDebt(uid, d, a) \/ InsertPayment(uid, d, a))

C9_PermissionsByRole ==
    /\ [](\A uid \in users, r \in app_role :
            HoldsOnly(uid, r) => PoliciesByRole(uid, r))
    /\ [][ChangeNeedsPermission /\ PermissionSuffices]_vars

\* Writes of all three kinds have been carried out: a debtor was deleted, a
\* debt and a payment are recorded for the debtor that is left, and the last
\* request touched a row.
C9_Witness ==
    /\ response = Answer("ok", 1)
    /\ nextDebtorId > Cardinality(DOMAIN debtors)
    /\ debts /= <<>>
    /\ payments /= <<>>
    /\ \E id \in DOMAIN debtors : debtors[id].name = Bob

\* C8, as stated: a new identity receives viewer in the step that creates
\* it, and in no reachable state does an identity exist with zero roles.
NewIdentityIsViewer ==
    \A u \in users' \ users :
        /\ RolesOf(u)' = {"viewer"}
        /\ get_user_role(u)' = "viewer"

C8_NeverWithoutRole ==
    /\ [](\A u \in users : RolesOf(u) /= {})
    /\ [][NewIdentityIsViewer]_vars

\* C8, amended: a new identity receives viewer, in profiles and in
\* user_roles, in the step that creates it, and every identity has a profile
\* role in every reachable state; an identity loses its last user_roles row
\* only by a delete or update of user_roles requested by an admin.
LosesLastRoleOnlyByAdmin ==
    /\ (\E u \in users : RolesOf(u) /= {} /\ RolesOf(u)' = {})
        => \E uid \in users : has_role(uid, "admin") /\ RoleWriteBy(uid)
    /\ \/ UNCHANGED user_roles
       \/ \A uid \in users : has_role(uid, "admin") \/ ~RoleWriteBy(uid)

C8_ViewerAtCreation ==
    /\ [](\A u \in users : get_user_role(u) \in app_role)
    /\ [][NewIdentityIsViewer /\ LosesLastRoleOnlyByAdmin]_vars

\* An identity that signed up holds viewer alone, in user_roles and in its
\* profile, while another identity holds no role at all.
C8_Witness ==
    /\ \E u \in users : HoldsOnly(u, "viewer") /\ get_user_role(u) = "viewer"
    /\ \E u \in users : RolesOf(u) = {}

\* C10, as stated: every identity has exactly one role in every reachable
\* state, and none holds two different roles at once.
C10_ExactlyOneRole ==
    \A u \in users :
        /\ get_user_role(u) \in app_role
        /\ Cardinality(RolesOf(u)) = 1

\* C10, amended: get_user_role answers exactly one role of the enum for
\* every identity in every reachable state, and user_roles holds no
\* (identity, role) pair twice; an identity may hold several different
\* roles in user_roles.
C10_OneProfileRoleUniquePairs ==
    \A u \in users :
        /\ get_user_role(u) \in app_role
        /\ \A r \in app_role : has_role(u, r) => user_roles[<<u, r>>] = 1

\* The insert of a pair that user_roles holds has just been refused, while
\* an identity holds two roles.
C10_Witness ==
    /\ response.result = "unique_violation"
    /\ \E u \in users : Cardinality(RolesOf(u)) = 2

\* C1: the totals the dashboard computes for a debtor are total_debt = the
\* sum of the debtor's debt rows, total_paid = the sum of its payment rows
\* (each as the store held them when the query ran) and balance = total_debt
\* - total_paid, whatever the order in which the rows were inserted or are
\* returned (debts 5000 and 2550 with payment 3000 give 7550 / 3000 / 4550).
Reordered(data, o) == [i \in DOMAIN data |-> data[o[i]]]

SumsItsRows(result, sum) ==
    result.done
    => /\ totalOf(result) = sum
       /\ \A o \in Orders(DOMAIN result.data) :
            totalOf([result EXCEPT !.data = Reordered(result.data, o)]) = sum

AnswersSumTheirRows ==
    \A d \in DOMAIN fetch :
        /\ SumsItsRows(fetch[d].debts, fetch[d].debts.at.total_debt)
        /\ SumsItsRows(fetch[d].payments, fetch[d].payments.at.total_paid)

TotalsShownAreSums ==
    (setDebtors /\ route = "/")
    => /\ DOMAIN pageDebtors' = DOMAIN fetch
       /\ \A d \in DOMAIN fetch :
            /\ pageDebtors'[d].total_debt = fetch[d].debts.at.total_debt
            /\ pageDebtors'[d].total_paid = fetch[d].payments.at.total_paid
            /\ pageDebtors'[d].balance =
                fetch[d].debts.at.total_debt - fetch[d].payments.at.total_paid

PartialCascadeObserved(f) ==
    /\ f.debts.done
    /\ f.payments.done
    /\ \/ /\ f.debts.at.debtor
          /\ f.debts.data /= <<>>
          /\ f.debts.at.total_paid > 0
          /\ ~f.payments.at.debtor
       \/ /\ f.payments.at.debtor
          /\ f.payments.data /= <<>>
          /\ f.payments.at.total_debt > 0
          /\ ~f.debts.at.debtor

C5_NoPartialCascadeObserved ==
    \A d \in DOMAIN fetch : ~PartialCascadeObserved(fetch[d])

\* C6, as stated: a submit by a staff or admin identity of an amount above
\* the debtor's current balance stores the payment row and signals an
\* OverpaymentWarning.
CurrentBalance(d) == SnapshotOf(d).total_debt - SnapshotOf(d).total_paid

OverpaymentWarned ==
    \A amount \in PaymentAmounts :
        (/\ handleSubmit(amount)
         /\ canWrite(userRole)
         /\ selectedDebtor \in DOMAIN debtors
         /\ amount > CurrentBalance(selectedDebtor))
        => /\ nextPaymentId' = nextPaymentId + 1
           /\ toast'.title = "OverpaymentWarning"

OverpaymentBlocked ==
    \A amount \in PaymentAmounts :
        (handleSubmit(amount) /\ selectedDebtor /= 0)
        => IF amount > pageDebtors[selectedDebtor].balance
           THEN /\ UNCHANGED <<ledgerVars, idVars, response, route, phase>>
                /\ toast' = Toast("Error",
                                "Payment amount exceeds outstanding balance")
                /\ loading' = FALSE
           ELSE payments' /= payments
                => /\ toast'.title = "Payment Recorded"
                   /\ route' = "/"

StoreAcceptsOverpayment ==
    \A uid \in users, d \in DOMAIN debtors, a \in PaymentAmounts :
        (InsertPayment(uid, d, a) /\ PaymentsInsertPolicy(uid))
        => /\ response' = Answer("ok", 1)
           /\ nextPaymentId' = nextPaymentId + 1

NoRole(uid) == RolesOf(uid) = {}

ServedAsViewer(uid) ==
    /\ DebtorsSelectPolicy(uid) /\ DebtsSelectPolicy(uid)
    /\ PaymentsSelectPolicy(uid)
    /\ ~DebtorsInsertPolicy(uid) /\ ~DebtsInsertPolicy(uid)
    /\ ~PaymentsInsertPolicy(uid)
    /\ ~DebtorsUpdatePolicy(uid) /\ ~DebtsUpdatePolicy(uid)
    /\ ~PaymentsUpdatePolicy(uid)
    /\ ~DebtorsDeletePolicy(uid) /\ ~DebtsDeletePolicy(uid)
    /\ ~PaymentsDeletePolicy(uid)
    /\ ~UserRolesPolicy(uid)

FailsClosed(uid) ==
    /\ \/ /\ response'.result = "rls_violation"
          /\ UNCHANGED <<ledgerVars, roleVars>>
       \/ ~InsertBy(uid)
    /\ \/ /\ response' = Answer("ok", 0)
          /\ UNCHANGED <<ledgerVars, roleVars>>
       \/ ~(\/ UpdateBy(uid)
            \/ DeleteBy(uid)
            \/ \E user_id \in users, role \in app_role :
                    DeleteUserRole(uid, user_id, role))

C11_NoRoleFailsClosed ==
    /\ [](~canWrite("null"))
    /\ [](\A uid \in users : NoRole(uid) => ServedAsViewer(uid))
    /\ [][\A uid \in users : NoRole(uid) => FailsClosed(uid)]_vars

\* Every identity but the admin has lost its role, and one of them has just
\* been refused an insert while a debtor is registered.
C11_Witness ==
    /\ \A uid \in users : has_role(uid, "admin") \/ NoRole(uid)
    /\ \E uid \in users : NoRole(uid)
    /\ response.result = "rls_violation"
    /\ debtors /= <<>>


\* C12: a search whose term matches two or more debtors returns exactly one
\* of them, chosen by a first-match rule, with that debtor's history: the
\* answer of the debtor query makes the page go on to the amount queries of
\* one matching debtor.
SeveralMatch == Cardinality(Matches(searchTerm)) >= 2

GoesOnWithOneMatch ==
    /\ phase' = "query_totals"
    /\ \E d \in Matches(searchTerm) : DOMAIN fetch' = {d}

C12_FirstMatchReturned ==
    [][GoesOnWithOneMatch \/ ~SeveralMatch \/ ~AnswerSearch]_vars

\* C13: a search ends with "not found" exactly when no debtor's name or
\* phone number contains the term: a miss ends with "not found" and
\* without an error shown, and a search that ends with "not found" was
\* answered by the store and matched no debtor.
NotFoundShown == hasSearched /\ ~loading /\ searchResult = <<>>

SearchEnds == phase = "query_debtor" /\ phase' = "ready"

Miss == Matches(searchTerm) = {}

C13_NotFoundExactlyOnMiss ==
    [][/\ \/ /\ Miss
             /\ response'.result /= "unavailable"
          \/ ~NotFoundShown'
          \/ ~SearchEnds
       /\ \/ NotFoundShown' /\ toast' = NoToast
          \/ ~Miss
          \/ ~AnswerSearch]_vars


\* C15: a debtor with no debt rows and no payment rows is shown with
\* total_debt 0, total_paid 0 and balance 0, also when an amount query gave
\* no data: on the search page, when the store held no row of the debtor at
\* either answer; on the dashboard, for answers without rows or without
\* data.
NoRowsAt(f) == f.debts.at.total_debt = 0 /\ f.payments.at.total_paid = 0

AllZero(shown) ==
    shown.total_debt = 0 /\ shown.total_paid = 0 /\ shown.balance = 0

WithoutRows(failed) ==
    [done |-> TRUE, error |-> failed, data |-> <<>>, at |-> Pending.at]

IndexZeroWithoutRows ==
    \A e1, e2 \in BOOLEAN :
        AllZero(withTotals([name |-> Ann, pos |-> 1,
                            debts |-> WithoutRows(e1),
                            payments |-> WithoutRows(e2)]))

C15_NoRowsAllZero ==
    /\ IndexZeroWithoutRows
    /\ \/ searchResult = <<>>
       \/ phase /= "ready"
       \/ \A d \in DOMAIN fetch :
            NoRowsAt(fetch[d]) => AllZero(searchResult[1])

\* The result of a debtor without rows whose debts query gave no data.
C15_Witness ==
    /\ phase = "ready"
    /\ searchResult /= <<>>
    /\ \E d \in DOMAIN fetch :
        /\ searchResult[1].id = d
        /\ NoRowsAt(fetch[d])
        /\ fetch[d].debts.error
        /\ ~fetch[d].payments.error
        /\ RowsOf(debts, d) = {} /\ RowsOf(payments, d) = {}
        /\ AllZero(searchResult[1])


\* C14: the totals of each debtor in the list are those of computing that
\* debtor alone (the sums of its rows when its two queries were answered),
\* and a debtor's totals depend only on its own rows: an insert of a debt
\* or a payment for a debtor A leaves what the store gives for every other
\* debtor B unchanged.
InsertFor(A) ==
    \E uid \in users, a \in DebtAmounts \cup PaymentAmounts :
        InsertDebt(uid, A, a) \/ InsertPayment(uid, A, a)

OthersUntouched ==
    \A B \in DebtorIds :
        \/ SnapshotOf(B)' = SnapshotOf(B)
        \/ ~(\E A \in DebtorIds \ {B} : InsertFor(A))

AloneAt(f) ==
    [total_debt |-> f.debts.at.total_debt,
     total_paid |-> f.payments.at.total_paid,
     balance |-> f.debts.at.total_debt - f.payments.at.total_paid]

BatchAsAlone ==
    \/ ~(route = "/" /\ setDebtors)
    \/ \A d \in DOMAIN pageDebtors' :
        /\ pageDebtors'[d].total_debt = AloneAt(fetch[d]).total_debt
        /\ pageDebtors'[d].total_paid = AloneAt(fetch[d]).total_paid
        /\ pageDebtors'[d].balance = AloneAt(fetch[d]).balance

C14_TotalsOfOwnRowsOnly ==
    [][OthersUntouched /\ BatchAsAlone]_vars

\* The dashboard lists two debtors, one with a debt and a payment and one
\* without rows, each with its own totals.
C14_Witness ==
    /\ route = "/"
    /\ phase = "ready"
    /\ \E A, B \in DOMAIN pageDebtors \cap DOMAIN debtors :
        /\ A /= B
        /\ RowsOf(debts, A) /= {} /\ RowsOf(payments, A) /= {}
        /\ RowsOf(debts, B) = {} /\ RowsOf(payments, B) = {}
        /\ pageDebtors[A].total_debt > 0 /\ pageDebtors[A].total_paid > 0
        /\ pageDebtors[B].total_debt = 0 /\ pageDebtors[B].total_paid = 0
        /\ pageDebtors[B].balance = 0


\* C16: a debt whose reason is empty after trimming is rejected and not
\* stored: no submit of a reason of white space only adds a debt row, and
\* no stored debt has an empty reason.
C16_NoEmptyReason ==
    \A i \in DOMAIN debts : debts[i].reason /= <<>>

\* C17: a debtor whose name or phone number is empty after trimming is
\* rejected and not stored: no stored debtor has an empty name or an empty
\* phone number.
C17_NoEmptyNameOrPhone ==
    \A d \in DOMAIN debtors :
        debtors[d].name /= <<>> /\ debtors[d].phone_number /= <<>>

\* C18: every text field of a registered debtor is stored trimmed, and a
\* guarantor field that is empty after trimming is stored as null, never as
\* the empty text.
Trimmed(text) ==
    text = <<>> \/ (Head(text) /= " " /\ text[Len(text)] /= " ")

TrimmedOrNull(column) ==
    column = NULL \/ (column[1] /= <<>> /\ Trimmed(column[1]))

Places(list) == {list[d].pos : d \in DOMAIN list}

InNameOrder(list) ==
    /\ Places(list) = 1..Cardinality(DOMAIN list)
    /\ \A a, b \in DOMAIN list :
        /\ a /= b => list[a].pos /= list[b].pos
        /\ list[a].pos < list[b].pos
            => Collate(list[a].name) <= Collate(list[b].name)

EveryDebtorOnce ==
    \/ ~AnswerDebtors
    \/ /\ auth \in users
       /\ DOMAIN fetch' = DOMAIN debtors
       /\ \A d \in DOMAIN debtors : fetch'[d].name = debtors[d].name

ListedWithTotals ==
    \/ ~setDebtors
    \/ /\ DOMAIN pageDebtors' = DOMAIN fetch
       /\ \A d \in DOMAIN fetch :
            /\ pageDebtors'[d].pos = fetch[d].pos
            /\ pageDebtors'[d].name = fetch[d].name
            /\ pageDebtors'[d].total_debt = AloneAt(fetch[d]).total_debt
            /\ pageDebtors'[d].total_paid = AloneAt(fetch[d]).total_paid
            /\ pageDebtors'[d].balance = AloneAt(fetch[d]).balance

C19_ListedOnceInNameOrder ==
    /\ [](InNameOrder(fetch) /\ InNameOrder(pageDebtors))
    /\ [][EveryDebtorOnce /\ ListedWithTotals]_vars

\* The viewer's dashboard lists Ann, registered second, before Bob,
\* registered first, with Bob's debt and payment.
C19_Witness ==
    /\ route = "/"
    /\ phase = "ready"
    /\ has_role(auth, "viewer")
    /\ DOMAIN pageDebtors = DOMAIN debtors
    /\ \E a, b \in DOMAIN pageDebtors :
        /\ b < a
        /\ pageDebtors[a].name = Ann /\ pageDebtors[a].pos = 1
        /\ pageDebtors[b].name = Bob /\ pageDebtors[b].pos = 2
        /\ pageDebtors[b].total_debt > 0 /\ pageDebtors[b].total_paid > 0
        /\ pageDebtors[a].balance = 0


\* C20: the debtor reference of a debt never changes once the debt is
\* created: no step changes debtor_id of a debt that stays in the store.
C20_NoReparenting ==
    [][\A id \in DOMAIN debts \cap DOMAIN debts' :
            debts'[id].debtor_id = debts[id].debtor_id]_vars


\* C22: no store error is swallowed: an operation one of whose queries
\* failed reports a failure and sets no result built from the missing data.
\* On the search page: a result is set only from answers without error.
C22_NoResultFromFailedQuery ==
    \/ searchResult = <<>>
    \/ phase /= "ready"
    \/ \A d \in DOMAIN fetch :
        ~fetch[d].debts.error /\ ~fetch[d].payments.error


\* C27: no operation of an identity that is not an admin changes the answer
\* of has_role for any identity: a step that changes has_role of an
\* identity is a write of user_roles requested by an admin, and a write of
\* user_roles or of a profile requested by an identity without the admin
\* role leaves the roles of every identity, its own included, as they were.
HasRoleKept ==
    \A u \in users, r \in app_role : has_role(u, r)' = has_role(u, r)

WriteByNonAdmin ==
    \E uid \in users :
        /\ ~has_role(uid, "admin")
        /\ \/ RoleWriteBy(uid)
           \/ \E id \in UserIds, role \in app_role : UpdateProfile(uid, id, role)

C27_OnlyAdminChangesRoles ==
    [][/\ \/ HasRoleKept
          \/ \E uid \in users : has_role(uid, "admin") /\ RoleWriteBy(uid)
       /\ \/ HasRoleKept
          \/ ~WriteByNonAdmin]_vars

\* A staff identity whose profile says admin has just been refused the
\* insert of a role row, and holds the staff role alone.
C27_Witness ==
    /\ response.result = "rls_violation"
    /\ \E u \in users :
        /\ HoldsOnly(u, "staff")
        /\ get_user_role(u) = "admin"
    /\ \A u \in users : has_role(u, "admin") => HoldsOnly(u, "admin")

\* C28: profiles.role and user_roles agree in every reachable state:
\* get_user_role(u) = r exactly when has_role(u, r).
C28_RoleRecordsAgree ==
    \A u \in users, r \in app_role :
        get_user_role(u) = r <=> has_role(u, r)


\* C29: a submit of a debtor, a debt or a payment that fails (no session,
\* or an error of the store) adds no row to any relation and leaves the
\* page where it is with an error toast; a submit navigates to "/" only
\* when its insert added its row.
SubmitStep ==
    \/ \E name, phoneNumber \in RequiredTexts \cup {<<"5">>},
          guarantorName, guarantorPhone \in OptionalTexts :
            AddDebtorPage_handleSubmit(name, phoneNumber, guarantorName,
                                       guarantorPhone)
    \/ \E amount \in DebtAmounts, reason \in RequiredTexts \cup {<<"A">>} :
            AddDebtPage_handleSubmit(amount, reason)
    \/ \E amount \in PaymentAmounts : handleSubmit(amount)

RowAdded ==
    \/ /\ route = "/add-debtor"
       /\ nextDebtorId' \in DOMAIN debtors' \ DOMAIN debtors
       /\ UNCHANGED <<debts, payments>>
    \/ /\ route = "/add-debt"
       /\ nextDebtId' \in DOMAIN debts' \ DOMAIN debts
       /\ UNCHANGED <<debtors, payments>>
    \/ /\ route = "/add-payment"
       /\ nextPaymentId' \in DOMAIN payments' \ DOMAIN payments
       /\ UNCHANGED <<debtors, debts>>

SubmitFailed ==
    /\ UNCHANGED ledgerVars
    /\ route' = route
    /\ toast'.title = "Error"
    /\ loading' = FALSE

SubmitSucceeded ==
    /\ RowAdded
    /\ response'.result = "ok"
    /\ auth /= NoUser
    /\ route' = "/"

C29_FailedSubmitStays ==
    [][SubmitFailed \/ SubmitSucceeded \/ ~SubmitStep]_vars

\* The debt form is still open with an error toast after the store refused
\* the insert for a debtor that the admin had deleted.
C29_Witness ==
    /\ route = "/add-debt"
    /\ toast = Toast("Error", "fk_violation")
    /\ selectedDebtor \notin DOMAIN debtors
    /\ debts = <<>>


\* C21: every debt and every payment is stored with created_by equal to the
\* identity that performed the insert: the creator of a row that a step adds
\* is an identity whose insert of that row the step is.
C21_CreatedByIsInserter ==
    [][\A id \in DOMAIN debts' \ DOMAIN debts :
          \E uid \in users :
              /\ uid = debts'[id].created_by
              /\ InsertDebtRow(uid, debts'[id])]_vars

\* The two forms send the signed-in identity as created_by.
FormsRecordTheActor ==
    [][\/ ~(\/ \E amount \in DebtAmounts :
                    AddDebtPage_handleSubmit(amount, <<"A">>)
            \/ \E amount \in PaymentAmounts : handleSubmit(amount))
       \/ /\ \A id \in DOMAIN debts' \ DOMAIN debts :
                    debts'[id].created_by = auth
          /\ \A id \in DOMAIN payments' \ DOMAIN payments :
                    payments'[id].created_by = auth]_vars

\* Every update of a debtor that reaches its row sets updated_at to the time
\* of the update, whatever the statement set, and keeps created_at.
DebtorUpdateRefreshes ==
    [][\A id \in DOMAIN debtors, now \in Times :
        \/ /\ debtors'[id].updated_at = now
           /\ debtors'[id].created_at = debtors[id].created_at
        \/ \A uid \in users, name \in {<<"A", "n">>, Bob}, updated_at \in Times :
            \/ ~DebtorsUpdatePolicy(uid)
            \/ ~UpdateDebtorAt(uid, id, name, updated_at, now)]_vars


\* C25: inserts of different callers are independent and commute: whatever
\* the order in which the calls reached the store, the stored debts and
\* payments are the rows of the calls the store accepts, each once, and a
\* dashboard read started after the calls shows the sums of all of them.
AcceptedCalls(table) ==
    {c \in calls :
        /\ c.table = table
        /\ IF table = "debts"
           THEN DebtsWriteResult(DebtsInsertPolicy(c.caller),
                                 c.debtor_id, c.amount) = "ok"
           ELSE PaymentsWriteResult(PaymentsInsertPolicy(c.caller),
                                    c.debtor_id, c.amount) = "ok"}

RECURSIVE SumCalls(_)
SumCalls(S) ==
    IF S = {} THEN 0
    ELSE LET c == CHOOSE x \in S : TRUE
         IN  c.amount + SumCalls(S \ {c})

StoredAre(table, name) ==
    /\ {table[i] : i \in DOMAIN table}
            = {RowOfCall(c) : c \in AcceptedCalls(name)}
    /\ Cardinality(DOMAIN table) = Cardinality(AcceptedCalls(name))

ReadReflectsCalls ==
    \A d \in DOMAIN pageDebtors :
        /\ pageDebtors[d].total_debt =
            SumCalls({c \in AcceptedCalls("debts") : c.debtor_id = d})
        /\ pageDebtors[d].total_paid =
            SumCalls({c \in AcceptedCalls("payments") : c.debtor_id = d})

C25_InsertsCommute ==
    /\ StoredAre(debts, "debts")
    /\ StoredAre(payments, "payments")
    /\ (route = "/" /\ phase = "ready") => ReadReflectsCalls

\* The payment of the staff session reached the store before the debt of
\* the admin session, both for debtor 1, and the dashboard read after them
\* shows both.
C25_Witness ==
    /\ calls = {[caller |-> 1, table |-> "debts", debtor_id |-> 1,
                 amount |-> 5000],
                [caller |-> 2, table |-> "payments", debtor_id |-> 1,
                 amount |-> 3000]}
    /\ response = Answer("ok", 1)
    /\ nextDebtId = 1 /\ nextPaymentId = 1
    /\ route = "/" /\ phase = "ready"
    /\ 1 \in DOMAIN pageDebtors
    /\ pageDebtors[1].total_debt = 5000
    /\ pageDebtors[1].total_paid = 3000


\* C26: with every payment recorded through handleSubmit of the payment page
\* and debts only added, the payments of every debtor sum to at most its
\* debts.
C26_PaidWithinDebts ==
    \A d \in DOMAIN debtors :
        SnapshotOf(d).total_paid <= SnapshotOf(d).total_debt


\* C24: the dashboard shows for every debtor totals that the store held
\* together in one of its states between the start and the end of the read,
\* and the balance of those totals.
C24_ConsistentSnapshot ==
    (route = "/" /\ phase = "ready") =>
        \A d \in DOMAIN pageDebtors :
            /\ [id |-> d, total_debt |-> pageDebtors[d].total_debt,
                total_paid |-> pageDebtors[d].total_paid] \in seen
            /\ pageDebtors[d].balance =
                pageDebtors[d].total_debt - pageDebtors[d].total_paid


\* C30: loading always returns to false: whenever a submit or a search has
\* set it, the handler ends with loading = false, and the loading of the
\* dashboard ends with its fetch.
C30_LoadingReturns ==
    /\ loading ~> ~loading
    /\ IndexLoading ~> ~IndexLoading

\* A submit of the payment form was sent, the session ended before its
\* answer, and the handler has ended with its error toast and loading false.
C30_Witness ==
    /\ route = "/add-payment"
    /\ phase = "ready"
    /\ toast = Toast("Error", "Not authenticated")
    /\ ~loading
    /\ selectedDebtor /= 0


\* C23: the totals and the balance of a debtor are those of exact decimal
\* arithmetic at scale 2: what the dashboard keeps for a debtor is the number
\* of the exact sum, in cents, of the amounts read, and the number of their
\* exact difference.
C23_NoRoundingArtifacts ==
    [][\/ ~setDebtorsDouble
       \/ \A d \in DOMAIN fetch :
            LET debt == reduce(fetch[d].debts.data)
                paid == reduce(fetch[d].payments.data)
            IN  /\ pageDebtors'[d].total_debt = toDouble(debt)
                /\ pageDebtors'[d].total_paid = toDouble(paid)
                /\ pageDebtors'[d].balance = toDouble(debt - paid)]_vars

\* The amounts of the other specifications are sums of halves, which the
\* numbers of the client hold and add exactly: counting them in cents gives
\* what the client computes.
CentsAreExactOnHalves ==
    \A a, b \in DebtAmounts \cup PaymentAmounts \cup FormAmounts :
        /\ fadd(toDouble(a), toDouble(b)) = toDouble(a + b)
        /\ fsub(toDouble(a), toDouble(b)) = toDouble(a - b)
        /\ fsub(fadd(toDouble(a), toDouble(a)), toDouble(b))
                = toDouble(a + a - b)

\* A debtor whose debts of 0.10 and 0.20 are paid with 0.30 is not shown
\* as owing.
PaidUpShownAsPaid ==
    (route = "/" /\ phase = "ready") =>
        \A d \in DOMAIN pageDebtors :
            ~(/\ pageDebtors[d].total_paid = toDouble(30)
              /\ pageDebtors[d].total_debt = reduceDouble(<<10, 20>>)
              /\ Owes(pageDebtors[d].balance))

============================================================================
